---- MODULE Spec2Model ----
(***************************************************************************)
(* Soft-skills assessment pipeline: the completion client with its model   *)
(* fallback list, the question generator and the answer evaluator built on *)
(* it, the keyword-overlap fallback grader, and app.py's session registry  *)
(* with the handlers that work on it.                                      *)
(*                                                                         *)
(* Text that the program inspects character by character (the grader's     *)
(* inputs, the api_result's response text) is a sequence of one-character  *)
(* strings.  Python values are tagged records [k |-> kind, v |-> payload]. *)
(***************************************************************************)
EXTENDS Integers, Sequences, FiniteSets, TLC

VARIABLES
    pc,          \* "idle", "request" (inside _make_api_request's loop), "done";
                 \* "grader", "graded"; "answers", "both_graded"; "extractor", "extracted";
                 \* "body", "content"; "text", "json_str"; one of
                 \* "request" and "done" for each client where the two
                 \* clients run side by side
    op,          \* the call in progress: the entry point and its arguments
    idx,         \* the position in all_models of the model the loop is at
    requests,    \* the payloads posted to the endpoint during this call, in order
    responses,   \* history: the endpoint's answers during this call, in order
    api_result,  \* what _make_api_request returned or raised in this call
    result,      \* what the entry point returned or raised
    active_sessions  \* app.py's session registry: the sessions in the order they were started

vars == <<pc, op, idx, requests, responses, api_result, result, active_sessions>>

(***************************************************************************)
(* Bounds of the model.                                                    *)
(***************************************************************************)
MaxWords == 3

(***************************************************************************)
(* Python values.                                                          *)
(***************************************************************************)
PyNone == [k |-> "none", v |-> <<>>]
PyStr(s) == [k |-> "str", v |-> s]
PyBool(b) == [k |-> "bool", v |-> b]
PyInt(n) == [k |-> "int", v |-> n]

PyList(xs) == [k |-> "list", v |-> xs]
PyDict(pairs) == [k |-> "dict", v |-> pairs]

Returned(x) == [k |-> "return", v |-> x]
Raised(e) == [k |-> "raise", v |-> e]

(* a dict is a sequence of <<key, value>> pairs in insertion order *)
DictHas(d, key) == \E i \in 1..Len(d.v) : d.v[i][1] = key
DictGet(d, key) == d.v[CHOOSE i \in 1..Len(d.v) : d.v[i][1] = key][2]

(* d[key] = val: a key already present keeps its place *)
DictSet(pairs, key, val) ==
    IF \E i \in 1..Len(pairs) : pairs[i][1] = key
    THEN [i \in 1..Len(pairs) |-> IF pairs[i][1] = key THEN <<key, val>> ELSE pairs[i]]
    ELSE Append(pairs, <<key, val>>)

IsStr(x) == x.k = "str"

(* bool(x), as an if statement tests a value *)
Truthy(x) ==
    CASE x.k = "none" -> FALSE
      [] x.k = "bool" -> x.v
      [] x.k = "int"  -> x.v # 0
      [] OTHER        -> x.v # <<>>

(***************************************************************************)
(* str methods on character sequences.                                     *)
(***************************************************************************)
UpperChars == <<"A","B","C","D","E","F","G","H","I","J","K","L","M",
                "N","O","P","Q","R","S","T","U","V","W","X","Y","Z">>
LowerChars == <<"a","b","c","d","e","f","g","h","i","j","k","l","m",
                "n","o","p","q","r","s","t","u","v","w","x","y","z">>

LowerChar(c) ==
    IF \E i \in 1..26 : UpperChars[i] = c
    THEN LowerChars[CHOOSE i \in 1..26 : UpperChars[i] = c]
    ELSE c

(* the backquote character (a string of the module cannot hold it literally) *)
Backquote == "<backquote>"
(* the one letter str.lower() maps by its context: capital sigma gives the
   final form after a cased letter and before none, characters that are
   case-ignorable skipped on both sides, and the medial form otherwise *)
CapitalSigma == "Σ"
SmallSigma == "σ"
FinalSigma == "ς"
CaseIgnorable == {".", "'", ":", "^", Backquote}
Cased(c) ==
    \/ \E i \in 1..26 : UpperChars[i] = c \/ LowerChars[i] = c
    \/ c \in {CapitalSigma, SmallSigma, FinalSigma}
IsFinalSigma(s, i) ==
    LET before == { j \in 1..(i - 1) : s[j] \notin CaseIgnorable }
        after == { j \in (i + 1)..Len(s) : s[j] \notin CaseIgnorable }
    IN  /\ before # {}
        /\ Cased(s[CHOOSE j \in before : \A m \in before : m <= j])
        /\ after = {} \/ ~Cased(s[CHOOSE j \in after : \A m \in after : j <= m])
LowerAt(s, i) ==
    IF s[i] = CapitalSigma
    THEN IF IsFinalSigma(s, i) THEN FinalSigma ELSE SmallSigma
    ELSE LowerChar(s[i])

(* str.lower() *)
Lower(s) == [i \in 1..Len(s) |-> LowerAt(s, i)]

(* the characters str.split() with no argument separates on *)
Whitespace == {" ", "\n", "\t"}

(* the words of s from position i on: one step per word *)
RECURSIVE SplitFrom(_, _)
SplitFrom(s, i) ==
    IF \A j \in i..Len(s) : s[j] \in Whitespace
    THEN <<>>
    ELSE LET first == CHOOSE j \in i..Len(s) :
                          /\ s[j] \notin Whitespace
                          /\ \A m \in i..(j - 1) : s[m] \in Whitespace
             last == CHOOSE j \in first..Len(s) :
                          /\ \A m \in first..j : s[m] \notin Whitespace
                          /\ (j = Len(s) \/ s[j + 1] \in Whitespace)
         IN  <<SubSeq(s, first, last)>> \o SplitFrom(s, last + 1)

(* str.split(): the maximal runs of non-whitespace characters, in order *)
Split(s) == SplitFrom(s, 1)

RECURSIVE LStrip(_, _)
LStrip(s, chars) ==
    IF s # <<>> /\ Head(s) \in chars THEN LStrip(Tail(s), chars) ELSE s

RECURSIVE RStrip(_, _)
RStrip(s, chars) ==
    IF s # <<>> /\ s[Len(s)] \in chars THEN RStrip(SubSeq(s, 1, Len(s) - 1), chars) ELSE s

(* str.strip(chars) *)
Strip(s, chars) == RStrip(LStrip(s, chars), chars)

(* `sub in s` for two strings *)
Contains(s, sub) ==
    \E i \in 1..(Len(s) - Len(sub) + 1) : SubSeq(s, i, i + Len(sub) - 1) = sub

(* s.find(sub): the index of the first occurrence, 0 when there is none *)
Find(s, sub) ==
    IF Contains(s, sub)
    THEN CHOOSE i \in 1..(Len(s) - Len(sub) + 1) :
            /\ SubSeq(s, i, i + Len(sub) - 1) = sub
            /\ \A j \in 1..(i - 1) : SubSeq(s, j, j + Len(sub) - 1) # sub
    ELSE 0

(***************************************************************************)
(* json.loads, on the JSON texts the model's endpoint produces: objects,   *)
(* arrays, strings without escapes, integers, true, false and null, with   *)
(* whitespace between tokens.                                              *)
(***************************************************************************)
Digits == <<"0","1","2","3","4","5","6","7","8","9">>
IsDigit(c) == \E i \in 1..10 : Digits[i] = c
DigitVal(c) == (CHOOSE i \in 1..10 : Digits[i] = c) - 1

JsonSpace == {" ", "\n", "\t", "\r"}

ParseFail == [ok |-> FALSE, val |-> PyNone, pos |-> 0]
ParseOk(val, pos) == [ok |-> TRUE, val |-> val, pos |-> pos]

RECURSIVE SkipWs(_, _)
SkipWs(s, i) == IF i <= Len(s) /\ s[i] \in JsonSpace THEN SkipWs(s, i + 1) ELSE i

StartsWithAt(s, i, lit) ==
    i + Len(lit) - 1 <= Len(s) /\ SubSeq(s, i, i + Len(lit) - 1) = lit

(* a string: from the quote at i to the next quote; a control character
   inside it is an error *)
ParseString(s, i) ==
    LET closing == { j \in (i + 1)..Len(s) : s[j] = "\"" }
    IN  IF i > Len(s) \/ s[i] # "\"" \/ closing = {}
        THEN ParseFail
        ELSE LET j == CHOOSE c \in closing : \A d \in closing : c <= d
                 body == SubSeq(s, i + 1, j - 1)
             IN  IF \E m \in 1..Len(body) : body[m] \in {"\\", "\n", "\t", "\r"}
                 THEN ParseFail
                 ELSE ParseOk(PyStr(body), j + 1)

RECURSIVE DigitsEnd(_, _)
DigitsEnd(s, i) == IF i <= Len(s) /\ IsDigit(s[i]) THEN DigitsEnd(s, i + 1) ELSE i

RECURSIVE DigitsValue(_, _, _, _)
DigitsValue(s, i, e, acc) ==
    IF i >= e THEN acc ELSE DigitsValue(s, i + 1, e, 10 * acc + DigitVal(s[i]))

(* an integer: an optional minus, then 0 or a run of digits not starting with 0 *)
ParseNumber(s, i) ==
    LET neg == i <= Len(s) /\ s[i] = "-"
        st == IF neg THEN i + 1 ELSE i
        e == IF st <= Len(s) /\ s[st] = "0" THEN st + 1 ELSE DigitsEnd(s, st)
        n == DigitsValue(s, st, e, 0)
    IN  IF e = st THEN ParseFail ELSE ParseOk(PyInt(IF neg THEN 0 - n ELSE n), e)

RECURSIVE ParseValue(_, _)
RECURSIVE ParseElements(_, _, _)
RECURSIVE ParseMembers(_, _, _)

(* the elements of an array, a value expected at i *)
ParseElements(s, i, acc) ==
    LET r == ParseValue(s, i)
        j == SkipWs(s, r.pos)
    IN  IF ~r.ok \/ j > Len(s) THEN ParseFail
        ELSE IF s[j] = "," THEN ParseElements(s, j + 1, Append(acc, r.val))
        ELSE IF s[j] = "]" THEN ParseOk(PyList(Append(acc, r.val)), j + 1)
        ELSE ParseFail

(* the members of an object, a key expected at i *)
ParseMembers(s, i, acc) ==
    LET ki == SkipWs(s, i)
        key == ParseString(s, ki)
        c == SkipWs(s, key.pos)
        r == ParseValue(s, c + 1)
        j == SkipWs(s, r.pos)
    IN  IF ~key.ok \/ c > Len(s) THEN ParseFail
        ELSE IF s[c] # ":" THEN ParseFail
        ELSE IF ~r.ok \/ j > Len(s) THEN ParseFail
        ELSE IF s[j] = "," THEN ParseMembers(s, j + 1, DictSet(acc, key.val.v, r.val))
        ELSE IF s[j] = "}" THEN ParseOk(PyDict(DictSet(acc, key.val.v, r.val)), j + 1)
        ELSE ParseFail

ParseValue(s, i0) ==
    LET i == SkipWs(s, i0)
        n == SkipWs(s, i + 1)
    IN  IF i > Len(s) THEN ParseFail
        ELSE IF s[i] = "\"" THEN ParseString(s, i)
        ELSE IF s[i] = "{"
             THEN IF n <= Len(s) /\ s[n] = "}" THEN ParseOk(PyDict(<<>>), n + 1)
                  ELSE ParseMembers(s, n, <<>>)
        ELSE IF s[i] = "["
             THEN IF n <= Len(s) /\ s[n] = "]" THEN ParseOk(PyList(<<>>), n + 1)
                  ELSE ParseElements(s, n, <<>>)
        ELSE IF StartsWithAt(s, i, <<"t","r","u","e">>) THEN ParseOk(PyBool(TRUE), i + 4)
        ELSE IF StartsWithAt(s, i, <<"f","a","l","s","e">>) THEN ParseOk(PyBool(FALSE), i + 5)
        ELSE IF StartsWithAt(s, i, <<"n","u","l","l">>) THEN ParseOk(PyNone, i + 4)
        ELSE ParseNumber(s, i)

(* json.loads(text): the value, or JSONDecodeError when the text is not one
   JSON value followed only by whitespace *)
JsonLoads(text) ==
    LET r == ParseValue(text, 1)
    IN  IF r.ok /\ SkipWs(text, r.pos) > Len(text)
        THEN Returned(r.val)
        ELSE Raised("JSONDecodeError")

(***************************************************************************)
(* _extract_json (the same text in Evaluator and QuestionGenerator)        *)
(***************************************************************************)

Fence == <<Backquote, Backquote, Backquote>>
JsonFence == Fence \o <<"j","s","o","n">>

(* text.split(sep)[0]: the text before the first sep, all of it when there is none *)
SplitHead(text, sep) ==
    IF Contains(text, sep) THEN SubSeq(text, 1, Find(text, sep) - 1) ELSE text

(* text.split(sep)[1], for a text that contains sep: what lies between the
   first sep and the next one *)
SplitSecond(text, sep) ==
    SplitHead(SubSeq(text, Find(text, sep) + Len(sep), Len(text)), sep)

(* str.strip() *)
StripSpace == {" ", "\n", "\t", "\r", "\f"}

(* re.search(r'\{.*\}', text, re.DOTALL): from the first { to the last } after it *)
BraceMatch(text) ==
    LET opens == { i \in 1..Len(text) : text[i] = "{" }
        first == CHOOSE i \in opens : \A j \in opens : i <= j
        closes == { i \in 1..Len(text) : text[i] = "}" /\ i > first }
        last == CHOOSE i \in closes : \A j \in closes : j <= i
    IN  IF opens = {} THEN Raised("NoMatch")
        ELSE IF closes = {} THEN Raised("NoMatch")
        ELSE Returned(SubSeq(text, first, last))

ExtractJsonTail(text) ==
    IF BraceMatch(text).k = "return" THEN BraceMatch(text).v ELSE text

(* as if the fenced block without the json tag were not verified by parsing *)
MutExtractJson(text) ==
    IF Contains(text, JsonFence) /\ Contains(text, Fence)
    THEN Strip(SplitHead(SplitSecond(text, JsonFence), Fence), StripSpace)
    ELSE IF Contains(text, Fence)
         THEN Strip(SplitHead(SplitSecond(text, Fence), Fence), StripSpace)
         ELSE ExtractJsonTail(text)
ExtractJson(text) ==
    IF Contains(text, JsonFence) /\ Contains(text, Fence)
    THEN Strip(SplitHead(SplitSecond(text, JsonFence), Fence), StripSpace)
    ELSE IF Contains(text, Fence)
         THEN LET json_candidate ==
                      Strip(SplitHead(SplitSecond(text, Fence), Fence), StripSpace)
              IN  IF JsonLoads(json_candidate).k = "return"
                  THEN json_candidate
                  ELSE ExtractJsonTail(text)
         ELSE ExtractJsonTail(text)

(***************************************************************************)
(* str(x) and repr(x)                                                      *)
(***************************************************************************)
RECURSIVE NatToChars(_)
NatToChars(n) ==
    IF n < 10 THEN <<Digits[n + 1]>> ELSE NatToChars(n \div 10) \o <<Digits[(n % 10) + 1]>>

IntToChars(n) == IF n < 0 THEN <<"-">> \o NatToChars(0 - n) ELSE NatToChars(n)

RECURSIVE EscapeFor(_, _)
EscapeFor(s, quote) ==
    IF s = <<>> THEN <<>>
    ELSE (IF Head(s) = quote \/ Head(s) = "\\" THEN <<"\\", Head(s)>>
          ELSE IF Head(s) = "\n" THEN <<"\\", "n">>
          ELSE IF Head(s) = "\t" THEN <<"\\", "t">>
          ELSE IF Head(s) = "\r" THEN <<"\\", "r">>
          ELSE <<Head(s)>>) \o EscapeFor(Tail(s), quote)

(* repr of a str: in single quotes, in double quotes when it holds a single
   quote and no double quote *)
ReprStr(s) ==
    LET quote == IF Contains(s, <<"'">>) /\ ~Contains(s, <<"\"">>) THEN "\"" ELSE "'"
    IN  <<quote>> \o EscapeFor(s, quote) \o <<quote>>

RECURSIVE Repr(_)
RECURSIVE ReprItems(_)
RECURSIVE ReprPairs(_)

ReprItems(xs) ==
    IF xs = <<>> THEN <<>>
    ELSE IF Len(xs) = 1 THEN Repr(xs[1])
    ELSE Repr(xs[1]) \o <<",", " ">> \o ReprItems(Tail(xs))

ReprPairs(ps) ==
    IF ps = <<>> THEN <<>>
    ELSE LET one == ReprStr(ps[1][1]) \o <<":", " ">> \o Repr(ps[1][2])
         IN  IF Len(ps) = 1 THEN one ELSE one \o <<",", " ">> \o ReprPairs(Tail(ps))

Repr(x) ==
    CASE x.k = "none" -> <<"N","o","n","e">>
      [] x.k = "bool" -> IF x.v THEN <<"T","r","u","e">> ELSE <<"F","a","l","s","e">>
      [] x.k = "int"  -> IntToChars(x.v)
      [] x.k = "str"  -> ReprStr(x.v)
      [] x.k = "list" -> <<"[">> \o ReprItems(x.v) \o <<"]">>
      [] x.k = "dict" -> <<"{">> \o ReprPairs(x.v) \o <<"}">>

(* str(x), also what an f-string interpolates *)
StrOf(x) == IF x.k = "str" THEN x.v ELSE Repr(x)

(***************************************************************************)
(* The completion endpoint's answer to one request.                        *)
(*   exception: requests.post raised (no connection, timeout)              *)
(*   status:    the HTTP status                                            *)
(*   not_found: "Model not found" occurs in the response text              *)
(*   body:      what response.json() gives, NotJson when it raises         *)
(***************************************************************************)
NotJson == [k |-> "notjson", v |-> <<>>]

HttpResponse(status, not_found, body) ==
    [exception |-> FALSE, status |-> status, not_found |-> not_found, body |-> body]

NetworkError == [exception |-> TRUE, status |-> 0, not_found |-> FALSE, body |-> NotJson]

TextKey ==
    <<"t","e","x","t">>
ChoicesKey ==
    <<"c","h","o","i","c","e","s">>

(* key in x: membership in a dict's keys or a list's items, substring of a
   str, TypeError for anything else *)
In(key, x) ==
    CASE x.k = "dict" -> Returned(DictHas(x, key))
      [] x.k = "list" -> Returned(\E i \in 1..Len(x.v) : x.v[i] = PyStr(key))
      [] x.k = "str"  -> Returned(Contains(x.v, key))
      [] OTHER        -> Raised("TypeError")

(* response_data["choices"][0].get("text", "") *)
FirstChoiceText(choices) ==
    IF choices.k = "list"
    THEN IF choices.v[1].k = "dict"
         THEN Returned(IF DictHas(choices.v[1], TextKey)
                       THEN DictGet(choices.v[1], TextKey)
                       ELSE PyStr(<<>>))
         ELSE Raised("AttributeError")
    ELSE IF choices.k = "str" THEN Raised("AttributeError")
    ELSE Raised("KeyError")

(* the choices branch's condition and body, for a response_data in which
   "choices" was found *)
ChoicesContent(response_data) ==
    IF response_data.k # "dict" THEN Raised("TypeError")
    ELSE LET choices == DictGet(response_data, ChoicesKey)
         IN  IF choices.k \notin {"list", "str", "dict"} THEN Raised("TypeError")
             ELSE IF Len(choices.v) > 0 THEN FirstChoiceText(choices)
             ELSE Returned(PyStr(StrOf(response_data)))

(* "Extract content based on API structure": text, else choices[0].text,
   else str(response_data) *)
ResponseContent(response_data) ==
    IF In(TextKey, response_data).k = "raise" THEN In(TextKey, response_data)
    ELSE IF In(TextKey, response_data).v
         THEN IF response_data.k = "dict"
              THEN Returned(DictGet(response_data, TextKey))
              ELSE Raised("AttributeError")
    ELSE IF In(ChoicesKey, response_data).v THEN ChoicesContent(response_data)
    ELSE Returned(PyStr(StrOf(response_data)))

(* the status-200 branch: the parsed JSON, or the exception raised on the way *)
ParsedBody(response) ==
    IF response.body = NotJson THEN Raised("JSONDecodeError")
    ELSE LET content == ResponseContent(response.body)
         IN  IF content.k = "raise" THEN content
             ELSE IF content.v.k # "str" THEN Raised("TypeError")
             ELSE JsonLoads(ExtractJson(content.v.v))

(* one pass of the loop body over a response: the value returned from
   _make_api_request, or "next" when the loop goes on to the next model *)
NextModel == [k |-> "next", v |-> <<>>]

(* as if the status were not looked at *)
MutAttemptOutcome(response) ==
    IF response.exception THEN NextModel
    ELSE IF ParsedBody(response).k = "return" THEN ParsedBody(response) ELSE NextModel
AttemptOutcome(response) ==
    IF response.exception THEN NextModel
    ELSE IF response.status = 200
         THEN IF ParsedBody(response).k = "return" THEN ParsedBody(response) ELSE NextModel
    ELSE IF response.status = 404 /\ response.not_found THEN NextModel
    ELSE NextModel

(***************************************************************************)
(* Evaluator._fallback_evaluation                                          *)
(***************************************************************************)
(* the argument of word.strip(...) *)
StripChars == {".", ",", ";", ":", "(", ")", "[", "]", "{", "}", "\"", "'"}

(* the length a word must exceed to give a keyword *)
KeywordMinLen == 4

(* the comprehension's filter: `if len(word) > 4`, on the word as split *)
MutKeepsWord(word) == Len(word) >= KeywordMinLen
KeepsWord(word) == Len(word) > KeywordMinLen

(* expected_keywords: set(word.strip(...) for word in expected_text.split() if len(word) > 4) *)
ExpectedKeywords(expected_text) ==
    LET words == Split(expected_text)
    IN  { Strip(words[i], StripChars) : i \in { j \in 1..Len(words) : KeepsWord(words[j]) } }

(* matching_keywords: the keywords that are substrings of student_text *)
MatchingKeywords(keywords, student_text) ==
    Cardinality({ kw \in keywords : Contains(student_text, kw) })

(* is_correct = match_percentage >= 0.5, match_percentage = matching / len(keywords), 0 when empty *)
MutIsCorrect(matching, total) == IF total = 0 THEN FALSE ELSE 2 * matching > total
IsCorrect(matching, total) == IF total = 0 THEN FALSE ELSE 2 * matching >= total

(* int(match_percentage * 100): the product truncated toward zero.  In double
   arithmetic this equals the exact quotient below for every total < 50. *)
MutPercent(matching, total) == IF total = 0 THEN 0 ELSE (200 * matching + total) \div (2 * total)
Percent(matching, total) == IF total = 0 THEN 0 ELSE (100 * matching) \div total

(* f"The answer covers approximately {pct}% of the key concepts expected." *)
PositiveExplanation(pct) ==
    <<"T","h","e"," ","a","n","s","w","e","r"," ","c","o","v","e","r","s"," ","a","p","p",
         "r","o","x","i","m","a","t","e","l","y"," ">>
    \o IntToChars(pct)
    \o <<"%"," ","o","f"," ","t","h","e"," ","k","e","y"," ","c","o","n","c","e","p","t","s",
         " ","e","x","p","e","c","t","e","d",".">>
(* f"The answer is missing several important concepts (only covers about {pct}% of expected key points)." *)
NegativeExplanation(pct) ==
    <<"T","h","e"," ","a","n","s","w","e","r"," ","i","s"," ","m","i","s","s","i","n","g",
         " ","s","e","v","e","r","a","l"," ","i","m","p","o","r","t","a","n","t"," ","c","o",
         "n","c","e","p","t","s"," ","(","o","n","l","y"," ","c","o","v","e","r","s"," ","a",
         "b","o","u","t"," ">>
    \o IntToChars(pct)
    \o <<"%"," ","o","f"," ","e","x","p","e","c","t","e","d"," ","k","e","y"," ","p","o","i",
         "n","t","s",")",".">>

(* the explanation chosen by `if is_correct` *)
Explanation(is_correct, pct) ==
    PyStr(IF is_correct THEN PositiveExplanation(pct) ELSE NegativeExplanation(pct))

(* _fallback_evaluation(student_answer, expected_answer): .lower() of a value
   that is not a str raises AttributeError *)
FallbackEvaluation(student_answer, expected_answer) ==
    IF ~IsStr(student_answer) \/ ~IsStr(expected_answer)
    THEN Raised("AttributeError")
    ELSE LET student_text == Lower(student_answer.v)
             expected_text == Lower(expected_answer.v)
             keywords == ExpectedKeywords(expected_text)
             matching == MatchingKeywords(keywords, student_text)
             total == Cardinality(keywords)
             is_correct == IsCorrect(matching, total)
         IN  Returned([is_correct |-> PyBool(is_correct),
                       explanation |-> Explanation(is_correct, Percent(matching, total))])

(***************************************************************************)
(* QuestionGenerator                                                       *)
(***************************************************************************)
QuestionKey ==
    <<"q","u","e","s","t","i","o","n">>
ExpectedAnswerKey ==
    <<"e","x","p","e","c","t","e","d","_","a","n","s","w","e","r">>
AudioScenarioKey ==
    <<"a","u","d","i","o","_","s","c","e","n","a","r","i","o">>
ImageDescriptionKey ==
    <<"i","m","a","g","e","_","d","e","s","c","r","i","p","t","i","o","n">>

(* the entries of fallback_questions, the skill interpolated *)
(* f"Explain the core concepts of {skill} at a beginner level. What are the fundamental ideas someone new to {skill} should understand?" *)
BeginnerQuestion(skill) ==
    <<"E","x","p","l","a","i","n"," ","t","h","e"," ","c","o","r","e"," ","c","o","n","c",
         "e","p","t","s"," ","o","f"," ">>
    \o skill
    \o <<" ","a","t"," ","a"," ","b","e","g","i","n","n","e","r"," ","l","e","v","e","l",".",
         " ","W","h","a","t"," ","a","r","e"," ","t","h","e"," ","f","u","n","d","a","m","e",
         "n","t","a","l"," ","i","d","e","a","s"," ","s","o","m","e","o","n","e"," ","n","e",
         "w"," ","t","o"," ">>
    \o skill
    \o <<" ","s","h","o","u","l","d"," ","u","n","d","e","r","s","t","a","n","d","?">>
(* f"A good answer should cover the basic principles of {skill}, define key terminology, and explain foundational concepts without advanced jargon. The answer should be accessible to someone with no prior knowledge of {skill}." *)
BeginnerExpectedAnswer(skill) ==
    <<"A"," ","g","o","o","d"," ","a","n","s","w","e","r"," ","s","h","o","u","l","d"," ",
         "c","o","v","e","r"," ","t","h","e"," ","b","a","s","i","c"," ","p","r","i","n","c",
         "i","p","l","e","s"," ","o","f"," ">>
    \o skill
    \o <<","," ","d","e","f","i","n","e"," ","k","e","y"," ","t","e","r","m","i","n","o","l",
         "o","g","y",","," ","a","n","d"," ","e","x","p","l","a","i","n"," ","f","o","u","n",
         "d","a","t","i","o","n","a","l"," ","c","o","n","c","e","p","t","s"," ","w","i","t",
         "h","o","u","t"," ","a","d","v","a","n","c","e","d"," ","j","a","r","g","o","n",".",
         " ","T","h","e"," ","a","n","s","w","e","r"," ","s","h","o","u","l","d"," ","b","e",
         " ","a","c","c","e","s","s","i","b","l","e"," ","t","o"," ","s","o","m","e","o","n",
         "e"," ","w","i","t","h"," ","n","o"," ","p","r","i","o","r"," ","k","n","o","w","l",
         "e","d","g","e"," ","o","f"," ">>
    \o skill
    \o <<".">>
(* f"Describe the practical applications of {skill} at an intermediate level. How would you implement {skill} techniques in real-world scenarios?" *)
IntermediateQuestion(skill) ==
    <<"D","e","s","c","r","i","b","e"," ","t","h","e"," ","p","r","a","c","t","i","c","a",
         "l"," ","a","p","p","l","i","c","a","t","i","o","n","s"," ","o","f"," ">>
    \o skill
    \o <<" ","a","t"," ","a","n"," ","i","n","t","e","r","m","e","d","i","a","t","e"," ","l",
         "e","v","e","l","."," ","H","o","w"," ","w","o","u","l","d"," ","y","o","u"," ","i",
         "m","p","l","e","m","e","n","t"," ">>
    \o skill
    \o <<" ","t","e","c","h","n","i","q","u","e","s"," ","i","n"," ","r","e","a","l","-","w",
         "o","r","l","d"," ","s","c","e","n","a","r","i","o","s","?">>
(* f"A good answer should demonstrate clear understanding of {skill} concepts, explain how to apply them in practice, include examples of common use cases, and show awareness of limitations or challenges when implementing {skill}." *)
IntermediateExpectedAnswer(skill) ==
    <<"A"," ","g","o","o","d"," ","a","n","s","w","e","r"," ","s","h","o","u","l","d"," ",
         "d","e","m","o","n","s","t","r","a","t","e"," ","c","l","e","a","r"," ","u","n","d",
         "e","r","s","t","a","n","d","i","n","g"," ","o","f"," ">>
    \o skill
    \o <<" ","c","o","n","c","e","p","t","s",","," ","e","x","p","l","a","i","n"," ","h","o",
         "w"," ","t","o"," ","a","p","p","l","y"," ","t","h","e","m"," ","i","n"," ","p","r",
         "a","c","t","i","c","e",","," ","i","n","c","l","u","d","e"," ","e","x","a","m","p",
         "l","e","s"," ","o","f"," ","c","o","m","m","o","n"," ","u","s","e"," ","c","a","s",
         "e","s",","," ","a","n","d"," ","s","h","o","w"," ","a","w","a","r","e","n","e","s",
         "s"," ","o","f"," ","l","i","m","i","t","a","t","i","o","n","s"," ","o","r"," ","c",
         "h","a","l","l","e","n","g","e","s"," ","w","h","e","n"," ","i","m","p","l","e","m",
         "e","n","t","i","n","g"," ">>
    \o skill
    \o <<".">>
(* f"Analyze how {skill} has evolved over time and discuss current cutting-edge developments. What advanced techniques distinguish expert practitioners in this field?" *)
AdvancedQuestion(skill) ==
    <<"A","n","a","l","y","z","e"," ","h","o","w"," ">>
    \o skill
    \o <<" ","h","a","s"," ","e","v","o","l","v","e","d"," ","o","v","e","r"," ","t","i","m",
         "e"," ","a","n","d"," ","d","i","s","c","u","s","s"," ","c","u","r","r","e","n","t",
         " ","c","u","t","t","i","n","g","-","e","d","g","e"," ","d","e","v","e","l","o","p",
         "m","e","n","t","s","."," ","W","h","a","t"," ","a","d","v","a","n","c","e","d"," ",
         "t","e","c","h","n","i","q","u","e","s"," ","d","i","s","t","i","n","g","u","i","s",
         "h"," ","e","x","p","e","r","t"," ","p","r","a","c","t","i","t","i","o","n","e","r",
         "s"," ","i","n"," ","t","h","i","s"," ","f","i","e","l","d","?">>
(* f"A comprehensive answer should demonstrate deep knowledge of {skill}, including its historical development, current state-of-the-art techniques, ability to critically evaluate different approaches, and awareness of ongoing research or innovations in the field." *)
AdvancedExpectedAnswer(skill) ==
    <<"A"," ","c","o","m","p","r","e","h","e","n","s","i","v","e"," ","a","n","s","w","e",
         "r"," ","s","h","o","u","l","d"," ","d","e","m","o","n","s","t","r","a","t","e"," ",
         "d","e","e","p"," ","k","n","o","w","l","e","d","g","e"," ","o","f"," ">>
    \o skill
    \o <<","," ","i","n","c","l","u","d","i","n","g"," ","i","t","s"," ","h","i","s","t","o",
         "r","i","c","a","l"," ","d","e","v","e","l","o","p","m","e","n","t",","," ","c","u",
         "r","r","e","n","t"," ","s","t","a","t","e","-","o","f","-","t","h","e","-","a","r",
         "t"," ","t","e","c","h","n","i","q","u","e","s",","," ","a","b","i","l","i","t","y",
         " ","t","o"," ","c","r","i","t","i","c","a","l","l","y"," ","e","v","a","l","u","a",
         "t","e"," ","d","i","f","f","e","r","e","n","t"," ","a","p","p","r","o","a","c","h",
         "e","s",","," ","a","n","d"," ","a","w","a","r","e","n","e","s","s"," ","o","f"," ",
         "o","n","g","o","i","n","g"," ","r","e","s","e","a","r","c","h"," ","o","r"," ","i",
         "n","n","o","v","a","t","i","o","n","s"," ","i","n"," ","t","h","e"," ","f","i","e",
         "l","d",".">>

FallbackLevels == {"Beginner", "Intermediate", "Advanced"}

FallbackQuestions(skill) ==
    [level \in FallbackLevels |->
        CASE level = "Beginner" ->
                [question |-> PyStr(BeginnerQuestion(skill)),
                 expected_answer |-> PyStr(BeginnerExpectedAnswer(skill))]
          [] level = "Intermediate" ->
                [question |-> PyStr(IntermediateQuestion(skill)),
                 expected_answer |-> PyStr(IntermediateExpectedAnswer(skill))]
          [] level = "Advanced" ->
                [question |-> PyStr(AdvancedQuestion(skill)),
                 expected_answer |-> PyStr(AdvancedExpectedAnswer(skill))]]

(* _generate_fallback_question: the level's entry, Intermediate's for a level
   that is not in the table *)
MutGenerateFallbackQuestion(skill, level) == FallbackQuestions(skill)["Intermediate"]
(* as if a level that is not in the table selected the Beginner entry *)
MutFallbackDefault(skill, level) ==
    FallbackQuestions(skill)[IF level \in FallbackLevels THEN level ELSE "Beginner"]
GenerateFallbackQuestion(skill, level) ==
    LET level_key == IF level \in FallbackLevels THEN level ELSE "Intermediate"
    IN  FallbackQuestions(skill)[level_key]

(* isinstance(data, dict) and all(k in data for k in keys) *)
HasKeys(data, keys) == data.k = "dict" /\ \A key \in keys : DictHas(data, key)

(* _generate_text_question after the completion call: completion is what
   _make_api_request returned or raised *)
MutGenerateTextQuestion(skill, level, completion) ==
    IF completion.k = "return" /\ completion.v.k = "dict"
    THEN [question_type |-> "Text",
          question_content |-> IF DictHas(completion.v, QuestionKey)
                               THEN DictGet(completion.v, QuestionKey) ELSE PyNone,
          expected_answer |-> IF DictHas(completion.v, ExpectedAnswerKey)
                              THEN DictGet(completion.v, ExpectedAnswerKey) ELSE PyNone,
          media_path |-> PyNone]
    ELSE [question_type |-> "Text",
          question_content |-> GenerateFallbackQuestion(skill, level).question,
          expected_answer |-> GenerateFallbackQuestion(skill, level).expected_answer,
          media_path |-> PyNone]
GenerateTextQuestion(skill, level, completion) ==
    IF completion.k = "return" /\ HasKeys(completion.v, {QuestionKey, ExpectedAnswerKey})
    THEN [question_type |-> "Text",
          question_content |-> DictGet(completion.v, QuestionKey),
          expected_answer |-> DictGet(completion.v, ExpectedAnswerKey),
          media_path |-> PyNone]
    ELSE [question_type |-> "Text",
          question_content |-> GenerateFallbackQuestion(skill, level).question,
          expected_answer |-> GenerateFallbackQuestion(skill, level).expected_answer,
          media_path |-> PyNone]

(* f"Audio Scenario: {scenario}\n\nQuestion: {question}" *)
AudioQuestionContent(scenario, question) ==
    <<"A","u","d","i","o"," ","S","c","e","n","a","r","i","o",":"," ">>
    \o StrOf(scenario)
    \o <<"\n","\n","Q","u","e","s","t","i","o","n",":"," ">>
    \o StrOf(question)
(* f"Imagine you are listening to a conversation about {skill}. The speakers are discussing key aspects and challenges." *)
FallbackAudioScenario(skill) ==
    <<"I","m","a","g","i","n","e"," ","y","o","u"," ","a","r","e"," ","l","i","s","t","e",
         "n","i","n","g"," ","t","o"," ","a"," ","c","o","n","v","e","r","s","a","t","i","o",
         "n"," ","a","b","o","u","t"," ">>
    \o skill
    \o <<"."," ","T","h","e"," ","s","p","e","a","k","e","r","s"," ","a","r","e"," ","d","i",
         "s","c","u","s","s","i","n","g"," ","k","e","y"," ","a","s","p","e","c","t","s"," ",
         "a","n","d"," ","c","h","a","l","l","e","n","g","e","s",".">>

(* _generate_audio_question after the completion call *)
GenerateAudioQuestion(skill, level, completion) ==
    IF completion.k = "return"
       /\ HasKeys(completion.v, {AudioScenarioKey, QuestionKey, ExpectedAnswerKey})
    THEN [question_type |-> "Audio",
          question_content |->
              PyStr(AudioQuestionContent(DictGet(completion.v, AudioScenarioKey),
                                         DictGet(completion.v, QuestionKey))),
          expected_answer |-> DictGet(completion.v, ExpectedAnswerKey),
          media_path |-> PyNone]
    ELSE [question_type |-> "Audio",
          question_content |->
              PyStr(AudioQuestionContent(PyStr(FallbackAudioScenario(skill)),
                                         GenerateFallbackQuestion(skill, level).question)),
          expected_answer |-> GenerateFallbackQuestion(skill, level).expected_answer,
          media_path |-> PyNone]

(* f"Look at the image and answer the following question:\n\n{question}" *)
ImageQuestionContent(question) ==
    <<"L","o","o","k"," ","a","t"," ","t","h","e"," ","i","m","a","g","e"," ","a","n","d",
         " ","a","n","s","w","e","r"," ","t","h","e"," ","f","o","l","l","o","w","i","n","g",
         " ","q","u","e","s","t","i","o","n",":","\n","\n">>
    \o StrOf(question)
(* f"Look at the image and answer: {question}" *)
FallbackImageQuestionContent(question) ==
    <<"L","o","o","k"," ","a","t"," ","t","h","e"," ","i","m","a","g","e"," ","a","n","d",
         " ","a","n","s","w","e","r",":"," ">>
    \o StrOf(question)
(* f"A professional workplace scene showing people demonstrating {skill} in different ways." *)
FallbackImageDescription(skill) ==
    <<"A"," ","p","r","o","f","e","s","s","i","o","n","a","l"," ","w","o","r","k","p","l",
         "a","c","e"," ","s","c","e","n","e"," ","s","h","o","w","i","n","g"," ","p","e","o",
         "p","l","e"," ","d","e","m","o","n","s","t","r","a","t","i","n","g"," ">>
    \o skill
    \o <<" ","i","n"," ","d","i","f","f","e","r","e","n","t"," ","w","a","y","s",".">>

(* _generate_image_question after the completion call *)
GenerateImageQuestion(skill, level, completion) ==
    IF completion.k = "return"
       /\ HasKeys(completion.v, {ImageDescriptionKey, QuestionKey, ExpectedAnswerKey})
    THEN [question_type |-> "Image",
          question_content |->
              PyStr(ImageQuestionContent(DictGet(completion.v, QuestionKey))),
          expected_answer |-> DictGet(completion.v, ExpectedAnswerKey),
          image_description |-> DictGet(completion.v, ImageDescriptionKey),
          media_path |-> PyNone]
    ELSE [question_type |-> "Image",
          question_content |->
              PyStr(FallbackImageQuestionContent(GenerateFallbackQuestion(skill, level).question)),
          expected_answer |-> GenerateFallbackQuestion(skill, level).expected_answer,
          image_description |-> PyStr(FallbackImageDescription(skill)),
          media_path |-> PyNone]

(* the question types generate_question sends to the completion endpoint *)
QuestionTypes == {"Text", "Audio", "Image"}

(* generate_question: the result for a supported type once the completion
   call has ended; for any other type the fallback entry itself, with no call *)
GenerateQuestion(skill, level, question_type, completion) ==
    CASE question_type = "Text"  -> GenerateTextQuestion(skill, level, completion)
      [] question_type = "Audio" -> GenerateAudioQuestion(skill, level, completion)
      [] question_type = "Image" -> GenerateImageQuestion(skill, level, completion)
      [] OTHER -> GenerateFallbackQuestion(skill, level)

(***************************************************************************)
(* Evaluator                                                               *)
(***************************************************************************)
IsCorrectKey ==
    <<"i","s","_","c","o","r","r","e","c","t">>
ExplanationKey ==
    <<"e","x","p","l","a","n","a","t","i","o","n">>

(* FallbackTranscription: "This is a fallback transcription. The SambaNova API could not process this audio." *)
FallbackTranscription ==
    <<"T","h","i","s"," ","i","s"," ","a"," ","f","a","l","l","b","a","c","k"," ","t","r","a",
      "n","s","c","r","i","p","t","i","o","n","."," ","T","h","e"," ","S","a","m","b","a","N",
      "o","v","a"," ","A","P","I"," ","c","o","u","l","d"," ","n","o","t"," ","p","r","o","c",
      "e","s","s"," ","t","h","i","s"," ","a","u","d","i","o",".">>

(* AudioTranscriber.transcribe_audio: the endpoint's transcript when it gave
   a truthy one, the placeholder otherwise *)
TranscribeAudio(api_transcript) ==
    IF Truthy(api_transcript) THEN api_transcript ELSE PyStr(FallbackTranscription)

(* PlaceholderImageDescription: "An image showing a person demonstrating soft skills in a professional environment." *)
PlaceholderImageDescription ==
    <<"A","n"," ","i","m","a","g","e"," ","s","h","o","w","i","n","g"," ","a"," ","p","e","r",
      "s","o","n"," ","d","e","m","o","n","s","t","r","a","t","i","n","g"," ","s","o","f","t",
      " ","s","k","i","l","l","s"," ","i","n"," ","a"," ","p","r","o","f","e","s","s","i","o",
      "n","a","l"," ","e","n","v","i","r","o","n","m","e","n","t",".">>
(* f"{question}\n\nAudio Transcript: {audio_transcript}" *)
QuestionWithTranscript(question, audio_transcript) ==
    StrOf(question)
    \o <<"\n","\n","A","u","d","i","o"," ","T","r","a","n","s","c","r","i","p","t",":"," ">>
    \o StrOf(audio_transcript)
(* f"Audio Answer Transcript: {audio_transcript}" *)
AudioAnswerTranscript(audio_transcript) ==
    <<"A","u","d","i","o"," ","A","n","s","w","e","r"," ","T","r","a","n","s","c","r","i",
         "p","t",":"," ">>
    \o StrOf(audio_transcript)
(* f"Image Answer Description: {image_description}" *)
ImageAnswerDescription(image_description) ==
    <<"I","m","a","g","e"," ","A","n","s","w","e","r"," ","D","e","s","c","r","i","p","t",
         "i","o","n",":"," ">>
    \o StrOf(image_description)
(* NoAnswerProvided: "No answer provided" *)
NoAnswerProvided ==
    <<"N","o"," ","a","n","s","w","e","r"," ","p","r","o","v","i","d","e","d">>

(* as if an Audio question had a transcript appended with or without media *)
MutProcessQuestion(question, question_type, media_path, api_transcript) ==
    IF question_type = "Text" THEN question
    ELSE IF question_type = "Audio"
         THEN PyStr(QuestionWithTranscript(question, TranscribeAudio(api_transcript)))
    ELSE question

(* _process_question *)
ProcessQuestion(question, question_type, media_path, api_transcript) ==
    IF question_type = "Text" THEN question
    ELSE IF question_type = "Audio" /\ Truthy(media_path)
         THEN PyStr(QuestionWithTranscript(question, TranscribeAudio(api_transcript)))
    ELSE question

(* _process_answer *)
ProcessAnswer(answer, answer_type, media_path, api_transcript) ==
    IF answer_type = "Text" THEN answer
    ELSE IF answer_type = "Audio" /\ Truthy(media_path)
         THEN PyStr(AudioAnswerTranscript(TranscribeAudio(api_transcript)))
    ELSE IF answer_type = "Image" /\ Truthy(media_path)
         THEN PyStr(ImageAnswerDescription(PyStr(PlaceholderImageDescription)))
    ELSE IF Truthy(answer) THEN answer ELSE PyStr(NoAnswerProvided)

(* is_correct as returned from the remote object: a str is compared,
   lowercased, with "true" *)
(* as if the string were compared with "true" as it is, case and all *)
MutCoerceIsCorrect(is_correct) ==
    IF is_correct.k = "str"
    THEN PyBool(is_correct.v = <<"t","r","u","e">>)
    ELSE is_correct
CoerceIsCorrect(is_correct) ==
    IF is_correct.k = "str"
    THEN PyBool(Lower(is_correct.v) = <<"t","r","u","e">>)
    ELSE is_correct

(* evaluate_answer after the completion call: the remote object's verdict
   when it has both keys, the fallback evaluation otherwise *)
(* as if the key is_correct alone were asked of the remote object *)
MutEvaluateAnswer(processed_answer, expected_answer, completion) ==
    IF completion.k = "return" /\ HasKeys(completion.v, {IsCorrectKey})
    THEN Returned([is_correct |-> CoerceIsCorrect(DictGet(completion.v, IsCorrectKey)),
                   explanation |-> IF DictHas(completion.v, ExplanationKey)
                                   THEN DictGet(completion.v, ExplanationKey) ELSE PyNone])
    ELSE FallbackEvaluation(processed_answer, expected_answer)
EvaluateAnswer(processed_answer, expected_answer, completion) ==
    IF completion.k = "return" /\ HasKeys(completion.v, {IsCorrectKey, ExplanationKey})
    THEN Returned([is_correct |-> CoerceIsCorrect(DictGet(completion.v, IsCorrectKey)),
                   explanation |-> DictGet(completion.v, ExplanationKey)])
    ELSE FallbackEvaluation(processed_answer, expected_answer)

(***************************************************************************)
(* The endpoint's answers the model draws from.                            *)
(***************************************************************************)
(* TextQuestionText: "{"question": "Why listen?", "expected_answer": "Listening shows empathy"}" *)
TextQuestionText ==
    <<"{","\"","q","u","e","s","t","i","o","n","\"",":"," ","\"","W","h","y"," ","l","i","s",
      "t","e","n","?","\"",","," ","\"","e","x","p","e","c","t","e","d","_","a","n","s","w","e",
      "r","\"",":"," ","\"","L","i","s","t","e","n","i","n","g"," ","s","h","o","w","s"," ","e",
      "m","p","a","t","h","y","\"","}">>
(* AudioQuestionText: "Sure!\n<backquote><backquote><backquote>json\n{"audio_scenario": "Two people argue", "question": "Why listen?", "expected_answer": "Listening shows empathy"}\n<backquote><backquote><backquote>" *)
AudioQuestionText ==
    <<"S","u","r","e","!","\n",Backquote,Backquote,Backquote,"j","s","o","n","\n","{","\"","a",
      "u","d","i","o","_","s","c","e","n","a","r","i","o","\"",":"," ","\"","T","w","o"," ","p",
      "e","o","p","l","e"," ","a","r","g","u","e","\"",","," ","\"","q","u","e","s","t","i","o",
      "n","\"",":"," ","\"","W","h","y"," ","l","i","s","t","e","n","?","\"",","," ","\"","e",
      "x","p","e","c","t","e","d","_","a","n","s","w","e","r","\"",":"," ","\"","L","i","s","t",
      "e","n","i","n","g"," ","s","h","o","w","s"," ","e","m","p","a","t","h","y","\"","}","\n",
      Backquote,Backquote,Backquote>>
(* ImageQuestionText: "Here you go: {"image_description": "A meeting", "question": "Why listen?", "expected_answer": "Listening shows empathy"} Enjoy" *)
ImageQuestionText ==
    <<"H","e","r","e"," ","y","o","u"," ","g","o",":"," ","{","\"","i","m","a","g","e","_","d",
      "e","s","c","r","i","p","t","i","o","n","\"",":"," ","\"","A"," ","m","e","e","t","i","n",
      "g","\"",","," ","\"","q","u","e","s","t","i","o","n","\"",":"," ","\"","W","h","y"," ",
      "l","i","s","t","e","n","?","\"",","," ","\"","e","x","p","e","c","t","e","d","_","a","n",
      "s","w","e","r","\"",":"," ","\"","L","i","s","t","e","n","i","n","g"," ","s","h","o","w",
      "s"," ","e","m","p","a","t","h","y","\"","}"," ","E","n","j","o","y">>
(* MissingKeyText: "{"question": "Why listen?"}" *)
MissingKeyText ==
    <<"{","\"","q","u","e","s","t","i","o","n","\"",":"," ","\"","W","h","y"," ","l","i","s",
      "t","e","n","?","\"","}">>
(* EmptyValuesText: "{"audio_scenario": "", "image_description": "", "question": "", "expected_answer": ""}" *)
EmptyValuesText ==
    <<"{","\"","a","u","d","i","o","_","s","c","e","n","a","r","i","o","\"",":"," ","\"","\"",
      ","," ","\"","i","m","a","g","e","_","d","e","s","c","r","i","p","t","i","o","n","\"",":",
      " ","\"","\"",","," ","\"","q","u","e","s","t","i","o","n","\"",":"," ","\"","\"",","," ",
      "\"","e","x","p","e","c","t","e","d","_","a","n","s","w","e","r","\"",":"," ","\"","\"",
      "}">>
(* VerdictText: "{"is_correct": true, "explanation": "Covers the key points"}" *)
VerdictText ==
    <<"{","\"","i","s","_","c","o","r","r","e","c","t","\"",":"," ","t","r","u","e",","," ",
      "\"","e","x","p","l","a","n","a","t","i","o","n","\"",":"," ","\"","C","o","v","e","r",
      "s"," ","t","h","e"," ","k","e","y"," ","p","o","i","n","t","s","\"","}">>
(* StringVerdictText: "<backquote><backquote><backquote>\n{"is_correct": "True", "explanation": "Good"}\n<backquote><backquote><backquote>" *)
StringVerdictText ==
    <<Backquote,Backquote,Backquote,"\n","{","\"","i","s","_","c","o","r","r","e","c","t","\"",
      ":"," ","\"","T","r","u","e","\"",","," ","\"","e","x","p","l","a","n","a","t","i","o",
      "n","\"",":"," ","\"","G","o","o","d","\"","}","\n",Backquote,Backquote,Backquote>>
(* NullVerdictText: "{"is_correct": null, "explanation": null}" *)
NullVerdictText ==
    <<"{","\"","i","s","_","c","o","r","r","e","c","t","\"",":"," ","n","u","l","l",","," ",
      "\"","e","x","p","l","a","n","a","t","i","o","n","\"",":"," ","n","u","l","l","}">>
(* NoExplanationText: "{"is_correct": false}" *)
NoExplanationText ==
    <<"{","\"","i","s","_","c","o","r","r","e","c","t","\"",":"," ","f","a","l","s","e","}">>
(* UpperFalseVerdictText: "{"is_correct": "FALSE", "explanation": "Off topic"}" *)
UpperFalseVerdictText ==
    <<"{","\"","i","s","_","c","o","r","r","e","c","t","\"",":"," ","\"","F","A","L","S","E",
      "\"",","," ","\"","e","x","p","l","a","n","a","t","i","o","n","\"",":"," ","\"","O","f",
      "f"," ","t","o","p","i","c","\"","}">>
(* YesVerdictText: "{"is_correct": "yes", "explanation": "Fine"}" *)
YesVerdictText ==
    <<"{","\"","i","s","_","c","o","r","r","e","c","t","\"",":"," ","\"","y","e","s","\"",",",
      " ","\"","e","x","p","l","a","n","a","t","i","o","n","\"",":"," ","\"","F","i","n","e",
      "\"","}">>
(* LowerTrueVerdictText: "{"is_correct": "true", "explanation": "Right"}" *)
LowerTrueVerdictText ==
    <<"{","\"","i","s","_","c","o","r","r","e","c","t","\"",":"," ","\"","t","r","u","e","\"",
      ","," ","\"","e","x","p","l","a","n","a","t","i","o","n","\"",":"," ","\"","R","i","g",
      "h","t","\"","}">>
(* ProseText: "I cannot help with that" *)
ProseText ==
    <<"I"," ","c","a","n","n","o","t"," ","h","e","l","p"," ","w","i","t","h"," ","t","h","a",
      "t">>

TextBody(content) == PyDict(<< <<TextKey, content>> >>)
ChoicesBody(choices) == PyDict(<< <<ChoicesKey, PyList(choices)>> >>)

(* status 200 with a JSON the caller can use *)
TextQuestionResponse == HttpResponse(200, FALSE, TextBody(PyStr(TextQuestionText)))
AudioQuestionResponse ==
    HttpResponse(200, FALSE, ChoicesBody(<<TextBody(PyStr(AudioQuestionText))>>))
ImageQuestionResponse == HttpResponse(200, FALSE, TextBody(PyStr(ImageQuestionText)))
VerdictResponse == HttpResponse(200, FALSE, TextBody(PyStr(VerdictText)))
StringVerdictResponse ==
    HttpResponse(200, FALSE, ChoicesBody(<<TextBody(PyStr(StringVerdictText))>>))

UpperFalseVerdictResponse == HttpResponse(200, FALSE, TextBody(PyStr(UpperFalseVerdictText)))
YesVerdictResponse == HttpResponse(200, FALSE, TextBody(PyStr(YesVerdictText)))
LowerTrueVerdictResponse == HttpResponse(200, FALSE, TextBody(PyStr(LowerTrueVerdictText)))

(* status 200 with a JSON that parses and is not what the caller asked for *)
MissingKeyResponse == HttpResponse(200, FALSE, TextBody(PyStr(MissingKeyText)))
EmptyValuesResponse == HttpResponse(200, FALSE, TextBody(PyStr(EmptyValuesText)))
NullVerdictResponse == HttpResponse(200, FALSE, TextBody(PyStr(NullVerdictText)))
NoExplanationResponse == HttpResponse(200, FALSE, TextBody(PyStr(NoExplanationText)))
ArrayBodyResponse == HttpResponse(200, FALSE, PyList(<<PyInt(1), PyInt(2)>>))
EmptyObjectResponse == HttpResponse(200, FALSE, PyDict(<< >>))

(* status 200 with nothing that parses *)
ProseResponse == HttpResponse(200, FALSE, TextBody(PyStr(ProseText)))
NullTextResponse == HttpResponse(200, FALSE, TextBody(PyNone))
EmptyChoicesResponse == HttpResponse(200, FALSE, ChoicesBody(<< >>))
NotJsonResponse == HttpResponse(200, FALSE, NotJson)

(* other statuses, and no response at all *)
ModelNotFoundResponse == HttpResponse(404, TRUE, NotJson)
NotFoundResponse == HttpResponse(404, FALSE, NotJson)
ServerErrorResponse == HttpResponse(500, FALSE, NotJson)
(* an error status whose body is a JSON document all the same *)
ErrorWithJsonResponse == HttpResponse(500, FALSE, PyDict(<< >>))

UsableResponses ==
    { TextQuestionResponse, AudioQuestionResponse, ImageQuestionResponse,
      VerdictResponse, StringVerdictResponse, UpperFalseVerdictResponse,
      YesVerdictResponse, LowerTrueVerdictResponse }

OddResponses ==
    { MissingKeyResponse, EmptyValuesResponse, NullVerdictResponse,
      NoExplanationResponse, ArrayBodyResponse, EmptyObjectResponse }

FailedResponses ==
    { ProseResponse, NullTextResponse, EmptyChoicesResponse, NotJsonResponse,
      ModelNotFoundResponse, NotFoundResponse, ServerErrorResponse,
      ErrorWithJsonResponse, NetworkError }

Responses == UsableResponses \cup OddResponses \cup FailedResponses

(* the answers drawn when the completion call is followed with its history *)
ClientResponses ==
    { TextQuestionResponse, AudioQuestionResponse, VerdictResponse,
      ArrayBodyResponse, EmptyObjectResponse,
      ProseResponse, NotJsonResponse, ModelNotFoundResponse,
      ErrorWithJsonResponse, NetworkError }

(***************************************************************************)
(* _make_api_request                                                       *)
(***************************************************************************)
(* config.py: SAMBANOVA_MODEL_NAME and ALTERNATIVE_MODELS *)
PrimaryModel == "sambanova-llm"
AlternativeModels == <<"sambanova-chat", "sambanova-1.5-chat", "llama-7b", "llama2-7b">>

(* all_models = [self.model_name] + ALTERNATIVE_MODELS *)
AllModels == <<PrimaryModel>> \o AlternativeModels

MaxTokens == 512

(* the client in use: QuestionGenerator's for generate_question, Evaluator's
   for evaluate_answer *)
Caller(call) ==
    CASE call.fn = "generate" -> "QuestionGenerator"
      [] call.fn = "evaluate" -> "Evaluator"
      [] OTHER -> call.caller

Temperature(caller) == IF caller = "Evaluator" THEN "0.3" ELSE "0.7"

AllModelsFailed(caller) ==
    IF caller = "Evaluator"
    THEN Raised("All models failed to evaluate the answer")
    ELSE Raised("All models failed to generate a question")

(* as if QuestionGenerator's client went through all_models from its end *)
MutPayload(call, i) ==
    [model |-> IF Caller(call) = "QuestionGenerator"
               THEN AllModels[Len(AllModels) + 1 - i]
               ELSE AllModels[i],
     max_tokens |-> MaxTokens,
     temperature |-> Temperature(Caller(call))]

(* the payload posted for the model at position i *)
Payload(call, i) ==
    [model |-> AllModels[i],
     max_tokens |-> MaxTokens,
     temperature |-> Temperature(Caller(call))]

(* what the entry point in progress makes of the completion call's outcome *)
EntryResult(call, outcome) ==
    CASE call.fn = "generate" ->
            Returned(GenerateQuestion(call.skill, call.level, call.question_type, outcome))
      [] call.fn = "evaluate" ->
            EvaluateAnswer(call.processed_answer, call.expected_answer, outcome)
      [] OTHER -> outcome

(***************************************************************************)
(* The program: calls of generate_question and evaluate_answer, each       *)
(* running _make_api_request's loop one request at a time.                 *)
(***************************************************************************)
NoCall == [fn |-> "none"]

Init ==
    /\ pc = "idle"
    /\ op = NoCall
    /\ idx = 0
    /\ requests = <<>>
    /\ responses = <<>>
    /\ api_result = PyNone
    /\ result = PyNone
    /\ active_sessions = <<>>

(* generate_question(skill, level, question_type), up to its first request;
   an unsupported type returns at once *)
CallGenerate(skill, level, question_type) ==
    /\ pc = "idle"
    /\ op' = [fn |-> "generate", skill |-> skill, level |-> level,
              question_type |-> question_type]
    /\ IF question_type \in QuestionTypes
       THEN /\ pc' = "request"
            /\ idx' = 1
            /\ result' = result
       ELSE /\ pc' = "done"
            /\ idx' = idx
            /\ result' = Returned(GenerateQuestion(skill, level, question_type, PyNone))
    /\ UNCHANGED <<requests, responses, api_result, active_sessions>>

(* evaluate_answer(...), up to its first request: the question and the answer
   are processed; heard_q and heard_a are what the transcription endpoint
   gives for the question's and the answer's audio *)
CallEvaluate(question, expected_answer, student_answer, question_type, answer_type, question_media, answer_media, heard_q, heard_a) ==
    /\ pc = "idle"
    /\ op' = [fn |-> "evaluate",
              question |-> question,
              expected_answer |-> expected_answer,
              student_answer |-> student_answer,
              question_type |-> question_type,
              answer_type |-> answer_type,
              question_media |-> question_media,
              answer_media |-> answer_media,
              processed_question |->
                  ProcessQuestion(question, question_type, question_media, heard_q),
              processed_answer |->
                  ProcessAnswer(student_answer, answer_type, answer_media, heard_a)]
    /\ pc' = "request"
    /\ idx' = 1
    /\ UNCHANGED <<requests, responses, api_result, result, active_sessions>>

(* _make_api_request(prompt) called on its own *)
CallComplete(caller) ==
    /\ pc = "idle"
    /\ op' = [fn |-> "complete", caller |-> caller]
    /\ pc' = "request"
    /\ idx' = 1
    /\ UNCHANGED <<requests, responses, api_result, result, active_sessions>>

(* AttemptOutcome tabulated over the answers the model draws from *)
Outcomes == [response \in Responses |-> AttemptOutcome(response)]

(* as if the model-not-found branch left the loop (break for continue) *)
MutAttempt(response, record) ==
    /\ pc = "request"
    /\ requests' = Append(requests, Payload(op, idx))
    /\ responses' = IF record THEN Append(responses, response) ELSE responses
    /\ LET outcome == Outcomes[response]
           ended == IF outcome.k = "return" THEN outcome ELSE AllModelsFailed(Caller(op))
           not_found == ~response.exception /\ response.status = 404 /\ response.not_found
       IN  IF outcome.k = "return" \/ idx = Len(AllModels) \/ not_found
           THEN /\ api_result' = ended
                /\ result' = EntryResult(op, ended)
                /\ pc' = "done"
                /\ idx' = idx
           ELSE /\ idx' = idx + 1
                /\ UNCHANGED <<pc, api_result, result>>
    /\ UNCHANGED <<op, active_sessions>>

(* as if a parseable JSON did not end the loop before the last model *)
MutAttemptGoesOn(response, record) ==
    /\ pc = "request"
    /\ requests' = Append(requests, Payload(op, idx))
    /\ responses' = IF record THEN Append(responses, response) ELSE responses
    /\ LET outcome == Outcomes[response]
           ended == IF outcome.k = "return" THEN outcome ELSE AllModelsFailed(Caller(op))
       IN  IF idx = Len(AllModels)
           THEN /\ api_result' = ended
                /\ result' = EntryResult(op, ended)
                /\ pc' = "done"
                /\ idx' = idx
           ELSE /\ idx' = idx + 1
                /\ UNCHANGED <<pc, api_result, result>>
    /\ UNCHANGED <<op, active_sessions>>

(* as if an exception of requests.post left the loop *)
MutAttemptAborts(response, record) ==
    /\ pc = "request"
    /\ requests' = Append(requests, Payload(op, idx))
    /\ responses' = IF record THEN Append(responses, response) ELSE responses
    /\ LET outcome == Outcomes[response]
           ended == IF outcome.k = "return" THEN outcome ELSE AllModelsFailed(Caller(op))
       IN  IF outcome.k = "return" \/ idx = Len(AllModels) \/ response.exception
           THEN /\ api_result' = ended
                /\ result' = EntryResult(op, ended)
                /\ pc' = "done"
                /\ idx' = idx
           ELSE /\ idx' = idx + 1
                /\ UNCHANGED <<pc, api_result, result>>
    /\ UNCHANGED <<op, active_sessions>>

(* one pass of the loop: the request for all_models[idx] and what follows
   from the endpoint's answer.  The pass that ends the loop also runs the rest
   of the entry point. *)
Attempt(response, record) ==
    /\ pc = "request"
    /\ requests' = Append(requests, Payload(op, idx))
    /\ responses' = IF record THEN Append(responses, response) ELSE responses
    /\ LET outcome == Outcomes[response]
           ended == IF outcome.k = "return" THEN outcome ELSE AllModelsFailed(Caller(op))
       IN  IF outcome.k = "return" \/ idx = Len(AllModels)
           THEN /\ api_result' = ended
                /\ result' = EntryResult(op, ended)
                /\ pc' = "done"
                /\ idx' = idx
           ELSE /\ idx' = idx + 1
                /\ UNCHANGED <<pc, api_result, result>>
    /\ UNCHANGED <<op, active_sessions>>

(* the caller takes the result; the next call starts afresh *)
Return ==
    /\ pc = "done"
    /\ pc' = "idle"
    /\ op' = NoCall
    /\ idx' = 0
    /\ requests' = <<>>
    /\ responses' = <<>>
    /\ api_result' = PyNone
    /\ result' = PyNone
    /\ UNCHANGED active_sessions

Communication ==
    <<"C","o","m","m","u","n","i","c","a","t","i","o","n">>
Leadership ==
    <<"L","e","a","d","e","r","s","h","i","p">>
SampleQuestion ==
    <<"W","h","y"," ","l","i","s","t","e","n","?">>
SampleKeyPoints ==
    <<"L","i","s","t","e","n","i","n","g"," ","s","h","o","w","s"," ","e","m","p","a","t","h",
      "y",".">>
SampleAnswer ==
    <<"L","i","s","t","e","n","i","n","g"," ","t","o"," ","p","e","o","p","l","e"," ","s","h",
      "o","w","s"," ","t","h","e","m"," ","e","m","p","a","t","h","y">>
ShortKeyPoints ==
    <<"B","e"," ","k","i","n","d">>
SampleTranscript ==
    <<"e","m","p","a","t","h","y"," ","m","a","t","t","e","r","s">>
SampleMediaPath ==
    <<"a","u","d","i","o","/","a","n","s","w","e","r",".","w","a","v">>

Skills == {Communication, Leadership}
Levels == FallbackLevels \cup {"Expert"}
RequestedTypes == QuestionTypes \cup {"Video"}

ExpectedAnswers == {PyStr(SampleKeyPoints), PyStr(ShortKeyPoints), PyNone}
StudentAnswers == {PyStr(SampleAnswer), PyStr(<< >>), PyNone}
MediaPaths == {PyNone, PyStr(SampleMediaPath)}
Transcripts == {PyNone, PyStr(SampleTranscript)}

Next ==
    \/ \E skill \in Skills, level \in Levels, question_type \in RequestedTypes :
          CallGenerate(skill, level, question_type)
    \/ \E expected_answer \in ExpectedAnswers, student_answer \in StudentAnswers,
          question_type \in QuestionTypes, answer_type \in QuestionTypes,
          question_media \in MediaPaths, answer_media \in MediaPaths,
          heard_q \in Transcripts, heard_a \in Transcripts :
          CallEvaluate(PyStr(SampleQuestion), expected_answer, student_answer,
                       question_type, answer_type, question_media, answer_media,
                       heard_q, heard_a)
    \/ \E response \in Responses : Attempt(response, FALSE)
    \/ Return

Spec == Init /\ [][Next]_vars

(* the completion call on its own, with the history of the endpoint's answers *)
ClientNext ==
    \/ \E caller \in {"QuestionGenerator", "Evaluator"} : CallComplete(caller)
    \/ \E response \in ClientResponses : Attempt(response, TRUE)
    \/ Return

ClientSpec == Init /\ [][ClientNext]_vars

(***************************************************************************)
(* The grader on its own: inputs drawn from bounded sets of texts.         *)
(***************************************************************************)
(* words an expected answer is built from: long and short, with and without
   punctuation at the ends, and punctuation alone *)
GraderWords ==
    { <<"a","l","p","h","a">>,            \* alpha
      <<"A","l","p","h","a",",">>,        \* Alpha,
      <<"g","a","m","m","a","s">>,        \* gammas
      <<"d","e","l","t","a",".">>,        \* delta.
      <<"b","e","t","a">>,                \* beta
      <<"(","t","h","e",")">>,            \* (the)
      <<".",".",".",".",".">> }           \* .....

RECURSIVE Join(_)
Join(ws) ==
    IF ws = <<>> THEN <<>>
    ELSE IF Len(ws) = 1 THEN ws[1]
    ELSE ws[1] \o <<" ">> \o Join(Tail(ws))

GraderExpected ==
    { Join(ws) : ws \in UNION { [1..n -> GraderWords] : n \in 0..MaxWords } }

GraderStudent ==
    { <<>>,
      <<"a","l","p","h","a">>,
      <<"A","L","P","H","A","S"," ","g","a","m","m","a">>,
      <<"d","e","l","t","a"," ","g","a","m","m","a","s">>,
      <<"T","h","e"," ","b","e","t","a">> }

(* "Demonstrate active listening and empathy when responding" *)
SampleExpected ==
    <<"D","e","m","o","n","s","t","r","a","t","e"," ","a","c","t","i","v",
       "e"," ","l","i","s","t","e","n","i","n","g"," ","a","n","d"," ","e",
       "m","p","a","t","h","y"," ","w","h","e","n"," ","r","e","s","p","o",
       "n","d","i","n","g">>

(* "I listened carefully and showed empathy" *)
SampleStudent ==
    <<"I"," ","l","i","s","t","e","n","e","d"," ","c","a","r","e","f","u",
       "l","l","y"," ","a","n","d"," ","s","h","o","w","e","d"," ","e","m",
       "p","a","t","h","y">>

SampleGrading == [expected |-> PyStr(SampleExpected), student |-> PyStr(SampleStudent)]

GraderInputs ==
    [expected : { PyStr(e) : e \in GraderExpected },
     student : { PyStr(s) : s \in GraderStudent }] \cup {SampleGrading}

GraderInit ==
    /\ pc = "grader"
    /\ op \in GraderInputs
    /\ idx = 0
    /\ requests = <<>>
    /\ responses = <<>>
    /\ api_result = PyNone
    /\ result = PyNone
    /\ active_sessions = <<>>

Grade ==
    /\ pc = "grader"
    /\ result' = FallbackEvaluation(op.student, op.expected)
    /\ pc' = "graded"
    /\ UNCHANGED <<op, idx, requests, responses, api_result, active_sessions>>

GraderNext == Grade

GraderSpec == GraderInit /\ [][GraderNext]_vars

(***************************************************************************)
(* Properties of evaluate_answer and generate_question (checked under      *)
(* Spec).                                                                  *)
(***************************************************************************)
Evaluated == pc = "done" /\ op.fn = "evaluate"
Generated == pc = "done" /\ op.fn = "generate"

(* C1: evaluate_answer never raises: for every combination of its arguments
   (an empty or absent answer included) and every behaviour of the endpoint
   it returns a pair (is_correct, explanation) with both fields populated. *)
C1_EvaluateAlwaysReturnsVerdict ==
    Evaluated =>
        /\ result.k = "return"
        /\ result.v.is_correct # PyNone
        /\ result.v.explanation # PyNone

NonEmptyText(x) == x.k = "str" /\ x.v # << >>

(* C2: for any skill, level and question type generate_question returns,
   without raising, a question whose question_content and expected_answer are
   both non-empty, whatever the endpoint does. *)
C2_GenerateReturnsNonEmptyQuestion ==
    Generated =>
        /\ result.k = "return"
        /\ "question_content" \in DOMAIN result.v
        /\ "expected_answer" \in DOMAIN result.v
        /\ NonEmptyText(result.v.question_content)
        /\ NonEmptyText(result.v.expected_answer)

(* the keys the question type requires of the completion's object *)
RequiredKeys(question_type) ==
    CASE question_type = "Text"  -> {QuestionKey, ExpectedAnswerKey}
      [] question_type = "Audio" -> {AudioScenarioKey, QuestionKey, ExpectedAnswerKey}
      [] question_type = "Image" -> {ImageDescriptionKey, QuestionKey, ExpectedAnswerKey}

(* the static fallback entry of a level (Intermediate's for a level the table
   does not have) *)
StaticEntry(skill, level) ==
    FallbackQuestions(skill)[IF level \in FallbackLevels THEN level ELSE "Intermediate"]

EndsWith(s, suffix) ==
    Len(suffix) <= Len(s) /\ SubSeq(s, Len(s) - Len(suffix) + 1, Len(s)) = suffix

(* the returned question is built from the static entry: its expected answer
   is the entry's, and its content is the entry's question (Text) or ends with
   it (Audio and Image, which put a scenario or an instruction before it) *)
UsesStaticEntry(question, entry) ==
    /\ question.expected_answer = entry.expected_answer
    /\ question.question_content.k = "str"
    /\ IF question.question_type = "Text"
       THEN question.question_content = entry.question
       ELSE EndsWith(question.question_content.v, entry.question.v)

(* C5: when the completion call returns an object that lacks a key the
   question type requires, or a value that is not an object, generate_question
   does not raise and the question returned uses the static fallback question
   and expected answer of the requested level. *)
C5_MalformedObjectGivesFallback ==
    (/\ Generated
     /\ op.question_type \in QuestionTypes
     /\ api_result.k = "return"
     /\ ~(api_result.v.k = "dict"
          /\ \A key \in RequiredKeys(op.question_type) : DictHas(api_result.v, key)))
    => /\ result.k = "return"
       /\ result.v.question_type = op.question_type
       /\ UsesStaticEntry(result.v, StaticEntry(op.skill, op.level))

(* C5 witness: an Audio question asked, the completion an object without
   expected_answer, the Beginner entry returned *)
C5_Witness ==
    /\ Generated
    /\ op.question_type = "Audio"
    /\ op.level = "Beginner"
    /\ api_result = JsonLoads(MissingKeyText)
    /\ result.v.expected_answer = PyStr(BeginnerExpectedAnswer(op.skill))

(* C6: for every skill and every level of the table, when the completion call
   fails for all models a Text question is exactly the level's fallback
   entry, the skill interpolated. *)
C6_AllModelsFailedGivesLevelEntry ==
    (/\ Generated
     /\ op.question_type = "Text"
     /\ op.level \in FallbackLevels
     /\ api_result.k = "raise")
    => result = Returned([question_type |-> "Text",
                          question_content |-> FallbackQuestions(op.skill)[op.level].question,
                          expected_answer |-> FallbackQuestions(op.skill)[op.level].expected_answer,
                          media_path |-> PyNone])

(* C6 witness: Communication at Beginner, every model requested and failed,
   the Beginner entry returned *)
C6_Witness ==
    /\ Generated
    /\ op.question_type = "Text"
    /\ op.skill = Communication
    /\ op.level = "Beginner"
    /\ api_result.k = "raise"
    /\ Len(requests) = Len(AllModels)
    /\ result.v.question_content = PyStr(BeginnerQuestion(Communication))
    /\ result.v.expected_answer = PyStr(BeginnerExpectedAnswer(Communication))

(***************************************************************************)
(* Properties of the completion call (checked under ClientSpec).           *)
(***************************************************************************)
(* an HTTP 200 response from which a JSON value can be parsed *)
YieldsJson(response) ==
    ~response.exception /\ response.status = 200 /\ ParsedBody(response).k = "return"

Yielding == { i \in 1..Len(responses) : YieldsJson(responses[i]) }

InListOrder == \A i \in 1..Len(requests) : requests[i].model = AllModels[i]

(* C3: the completion call fails exactly when no candidate of the list yields
   an HTTP 200 response from which a JSON value can be parsed; otherwise it
   returns the JSON parsed from the first candidate, in list order, that
   yields one. *)
C3_FailsIffNoCandidateYieldsJson ==
    (pc = "done" /\ op.fn = "complete") =>
        /\ InListOrder
        /\ Len(responses) = Len(requests)
        /\ result.k = "raise" <=> Yielding = {}
        /\ Yielding = {} => Len(requests) = Len(AllModels)
        /\ Yielding # {} =>
              LET first == CHOOSE i \in Yielding : \A j \in Yielding : i <= j
              IN  /\ result = ParsedBody(responses[first])
                  /\ result.k = "return"

(* C3 witness: three candidates answered without a usable JSON and the fourth
   gave one, which is returned *)
C3_Witness ==
    /\ pc = "done"
    /\ op.fn = "complete"
    /\ Len(responses) = 4
    /\ responses[1] = ErrorWithJsonResponse
    /\ responses[2] = ProseResponse
    /\ responses[3] = NetworkError
    /\ responses[4] = AudioQuestionResponse
    /\ result = JsonLoads(ExtractJson(AudioQuestionText))

ModelNotFound(response) ==
    ~response.exception /\ response.status = 404 /\ response.not_found

(* C4: if the primary model answers 404 with "Model not found" and the first
   alternate answers 200 with a valid JSON payload, the call succeeds with the
   alternate's payload, and no request follows the alternate's: the primary
   and the first alternate are the only models requested. *)
C4_FallsBackToFirstAlternate ==
    /\ (Len(responses) = 1 /\ ModelNotFound(responses[1])) =>
          /\ pc = "request"
          /\ idx = 2
    /\ (/\ Len(responses) >= 2
        /\ ModelNotFound(responses[1])
        /\ YieldsJson(responses[2]))
       => /\ pc = "done"
          /\ result = ParsedBody(responses[2])
          /\ result.k = "return"
          /\ Len(requests) = 2
          /\ requests[1].model = PrimaryModel
          /\ requests[2].model = AlternativeModels[1]

(* C4 witness: the primary not found, the first alternate's question object
   returned *)
C4_Witness ==
    /\ pc = "done"
    /\ responses = <<ModelNotFoundResponse, TextQuestionResponse>>
    /\ result = JsonLoads(TextQuestionText)
    /\ Len(requests) = 2

(***************************************************************************)
(* Properties of the fallback grader (checked under GraderSpec).           *)
(***************************************************************************)
Graded == pc = "graded" /\ result.k = "return"

GradedKeywords == ExpectedKeywords(Lower(op.expected.v))

GradedMatches ==
    Cardinality({ kw \in GradedKeywords : Contains(Lower(op.student.v), kw) })

(* the keyword set as the specification words it: the lowercased tokens whose
   stripped form is longer than 4 characters *)
StrippedLongTokens(text) ==
    LET words == Split(Lower(text))
    IN  { Strip(words[i], StripChars) :
            i \in { j \in 1..Len(words) : Len(Strip(words[j], StripChars)) > 4 } }

(* C7: the expected keyword set is exactly the set of lowercased tokens of the
   expected answer whose form stripped of the punctuation is longer than 4
   characters; no keyword has 4 or fewer characters. *)
C7_KeywordsAreLongStrippedTokens ==
    Graded =>
        /\ GradedKeywords = StrippedLongTokens(op.expected.v)
        /\ \A kw \in GradedKeywords : Len(kw) > 4

(* C8: is_correct is true exactly when the keyword set K is not empty and at
   least half of its keywords occur as substrings of the lowercased student
   answer; with K empty the ratio is 0 and is_correct is false. *)
C8_VerdictIsHalfOfKeywords ==
    Graded =>
        /\ result.v.is_correct =
              PyBool(GradedKeywords # {} /\ 2 * GradedMatches >= Cardinality(GradedKeywords))
        /\ GradedKeywords = {} =>
              /\ result.v.is_correct = PyBool(FALSE)
              /\ result.v.explanation = PyStr(NegativeExplanation(0))

(* C8 witness: a grading on the threshold (one keyword of two matched, judged
   correct) *)
C8_Witness ==
    /\ Graded
    /\ Cardinality(GradedKeywords) = 2
    /\ GradedMatches = 1
    /\ result.v.is_correct = PyBool(TRUE)

(* C9 as stated: the sample expected and student texts match at least half of
   the keywords and are judged correct. *)
C9_SampleJudgedCorrect ==
    (Graded /\ op = SampleGrading) =>
        /\ 2 * GradedMatches >= Cardinality(GradedKeywords)
        /\ result.v.is_correct = PyBool(TRUE)

(* C9 amended: the sample texts have 5 keywords of which exactly one
   ("empathy") is a substring of the student text, so the grader reports 20%
   and is_correct = false. *)
C9_SampleJudgedIncorrect ==
    (Graded /\ op = SampleGrading) =>
        /\ Cardinality(GradedKeywords) = 5
        /\ { kw \in GradedKeywords : Contains(Lower(op.student.v), kw) }
              = { <<"e","m","p","a","t","h","y">> }
        /\ result.v.is_correct = PyBool(FALSE)
        /\ result.v.explanation = PyStr(NegativeExplanation(20))

C9_Witness == Graded /\ op = SampleGrading

(* round(100 * m / n) as Python rounds: to the nearest integer, a tie to the
   even one *)
RoundPercent(m, n) ==
    LET q == (100 * m) \div n
        r == (100 * m) % n
    IN  IF 2 * r > n THEN q + 1
        ELSE IF 2 * r < n THEN q
        ELSE IF q % 2 = 0 THEN q ELSE q + 1

(* the explanation is the positive sentence with pct when is_correct, the
   negative sentence with pct when not *)
ExplanationReports(pct) ==
    /\ result.v.is_correct = PyBool(TRUE) <=> result.v.explanation = PyStr(PositiveExplanation(pct))
    /\ result.v.is_correct = PyBool(FALSE) <=> result.v.explanation = PyStr(NegativeExplanation(pct))

(* C10 as stated: the explanation reports round(match_ratio * 100), in the
   positive template exactly when is_correct and in the negative one exactly
   when not. *)
C10_ReportsRoundedPercent ==
    Graded =>
        ExplanationReports(IF GradedKeywords = {} THEN 0
                           ELSE RoundPercent(GradedMatches, Cardinality(GradedKeywords)))

(* C10 amended: the explanation reports int(match_ratio * 100), the percentage
   truncated toward zero (66 for 2 of 3 keywords), in the positive template
   exactly when is_correct and in the negative one exactly when not. *)
C10_ReportsTruncatedPercent ==
    Graded =>
        ExplanationReports(IF GradedKeywords = {} THEN 0
                           ELSE (100 * GradedMatches) \div Cardinality(GradedKeywords))

(* C10 witness: two of three keywords matched, reported as 66 in the positive
   sentence *)
C10_Witness ==
    /\ Graded
    /\ Cardinality(GradedKeywords) = 3
    /\ GradedMatches = 2
    /\ result.v.explanation = PyStr(PositiveExplanation(66))

(***************************************************************************)
(* _extract_json followed by json.loads on its own: JSON object texts      *)
(* drawn from a bounded set, bare and inside a json fence.                 *)
(***************************************************************************)
MaxMembers == 2

(* the texts of the values an object's members take *)
JsonValueTexts ==
    { <<"\"", "o", "k", "\"">>,
      <<"\"", "\"">>,
      <<"\"">> \o Fence \o <<"\"">>,
      <<"7">>,
      <<"t","r","u","e">>,
      <<"n","u","l","l">>,
      <<"[", "1", "]">>,
      <<"{", "}">>,
      <<"{", "\"", "k", "\"", ":", "1", "}">> }

JsonKeys == << <<"q">>, <<"a">>, <<"e">> >>

MemberText(i, val, spaced) ==
    <<"\"">> \o JsonKeys[i] \o <<"\"", ":">> \o (IF spaced THEN <<" ">> ELSE <<>>) \o val

RECURSIVE MembersText(_, _, _)
MembersText(vals, i, spaced) ==
    IF i > Len(vals) THEN <<>>
    ELSE (IF i > 1 THEN <<",">> \o (IF spaced THEN <<" ">> ELSE <<>>) ELSE <<>>)
         \o MemberText(i, vals[i], spaced) \o MembersText(vals, i + 1, spaced)

ObjectText(vals, spaced) == <<"{">> \o MembersText(vals, 1, spaced) \o <<"}">>

JsonObjectTexts ==
    { ObjectText(vals, spaced) :
        vals \in UNION { [1..n -> JsonValueTexts] : n \in 0..MaxMembers },
        spaced \in BOOLEAN }

FenceLayouts == {"block", "inline", "prose"}

(* the object text J inside a json fence *)
Fenced(J, layout) ==
    CASE layout = "block" -> JsonFence \o <<"\n">> \o J \o <<"\n">> \o Fence
      [] layout = "inline" -> JsonFence \o <<" ">> \o J \o <<" ">> \o Fence
      [] OTHER -> <<"S","u","r","e",":","\n">> \o JsonFence \o <<"\n">> \o J
                  \o <<"\n">> \o Fence \o <<"\n","D","o","n","e",".">>

(* json.loads(self._extract_json(text)) *)
ExtractAndParse(text) == JsonLoads(ExtractJson(text))

ExtractInit ==
    /\ pc = "extractor"
    /\ op \in [text : JsonObjectTexts, layout : FenceLayouts]
    /\ idx = 0
    /\ requests = <<>>
    /\ responses = <<>>
    /\ api_result = PyNone
    /\ result = PyNone
    /\ active_sessions = <<>>

Extract ==
    /\ pc = "extractor"
    /\ result' = [bare |-> ExtractAndParse(op.text),
                  fenced |-> ExtractAndParse(Fenced(op.text, op.layout))]
    /\ pc' = "extracted"
    /\ UNCHANGED <<op, idx, requests, responses, api_result, active_sessions>>

ExtractNext == Extract

ExtractSpec == ExtractInit /\ [][ExtractNext]_vars

Extracted == pc = "extracted"

(* C11: for every JSON object text J, extracting from J inside a json fence
   and parsing gives the same object as extracting from the bare J and
   parsing. *)
C11_FencingInsensitive ==
    Extracted => result.fenced = result.bare

(* the object texts on which the two differ hold a fence of their own *)
FencingDiffersOnlyWithInnerFence ==
    Extracted /\ result.fenced # result.bare =>
        /\ Contains(op.text, Fence)
        /\ result.bare = JsonLoads(op.text)
        /\ result.bare.k = "return"
        /\ result.fenced.k = "raise"

(***************************************************************************)
(* app.py: the session registry (active_sessions), start_session and       *)
(* end_session.  A session id is the session's position in the registry:   *)
(* uuid4 gives every started session an id no earlier session has.         *)
(***************************************************************************)
MaxEvaluations == 4

(* the dict start_session stores; ended stands for the presence of end_time *)
NewSession(skill, level) ==
    [skill |-> skill,
     level |-> level,
     questions |-> <<>>,
     current_question_index |-> -1,
     answers |-> <<>>,
     evaluations |-> <<>>,
     score |-> 0,
     ended |-> FALSE]

(* start_session(skill, level): the registry with the new session in it *)
StartSession(sessions, skill, level) == Append(sessions, NewSession(skill, level))

(* sum(1 for eval_result in session["evaluations"] if eval_result[0]) *)
CorrectAnswers(evaluations) ==
    Cardinality({ i \in 1..Len(evaluations) : Truthy(evaluations[i][1]) })

(* as if the percentage were rounded to the nearest integer *)
MutScore(evaluations) ==
    (200 * CorrectAnswers(evaluations) + Len(evaluations)) \div (2 * Len(evaluations))

(* int((correct_answers / total_questions) * 100); the float product
   truncates to the integer quotient for every total below 50 *)
Score(evaluations) ==
    (CorrectAnswers(evaluations) * 100) \div Len(evaluations)

(* as if end_session took the finished session out of the registry *)
MutEndSession(session_id) ==
    /\ pc = "idle"
    /\ op' = [fn |-> "end_session", session_id |-> session_id]
    /\ IF session_id \in 1..Len(active_sessions)
       THEN /\ active_sessions' =
                  SubSeq(active_sessions, 1, session_id - 1)
                  \o SubSeq(active_sessions, session_id + 1, Len(active_sessions))
            /\ result' = Returned(PyInt(active_sessions[session_id].score))
       ELSE /\ active_sessions' = active_sessions
            /\ result' = Returned(PyInt(0))
    /\ UNCHANGED <<pc, idx, requests, responses, api_result>>

(* end_session(session_id); an id past the end of the registry is one that
   is not in it *)
EndSession(session_id) ==
    /\ pc = "idle"
    /\ op' = [fn |-> "end_session", session_id |-> session_id]
    /\ IF session_id \in 1..Len(active_sessions)
       THEN LET session == active_sessions[session_id]
                score == IF Len(session.evaluations) > 0
                         THEN Score(session.evaluations)
                         ELSE session.score
            IN  /\ active_sessions' =
                       [active_sessions EXCEPT
                           ![session_id] = [session EXCEPT !.ended = TRUE, !.score = score]]
                /\ result' = Returned(PyInt(score))
       ELSE /\ active_sessions' = active_sessions
            /\ result' = Returned(PyInt(0))
    /\ UNCHANGED <<pc, idx, requests, responses, api_result>>

(* end_session on its own: one session whose evaluations are drawn from a
   bounded set of (is_correct, explanation) pairs *)
Verdicts == {PyBool(TRUE), PyBool(FALSE), PyNone}

EvaluationLists ==
    UNION { [1..n -> { <<v, PyStr(<<"o", "k">>)>> : v \in Verdicts }] : n \in 0..MaxEvaluations }

ScoreInit ==
    /\ pc = "idle"
    /\ op = NoCall
    /\ idx = 0
    /\ requests = <<>>
    /\ responses = <<>>
    /\ api_result = PyNone
    /\ result = PyNone
    /\ active_sessions \in
          { << [NewSession(Communication, "Beginner") EXCEPT !.evaluations = evs] >> :
               evs \in EvaluationLists }

ScoreNext == \E session_id \in 1..(Len(active_sessions) + 1) : EndSession(session_id)

ScoreSpec == ScoreInit /\ [][ScoreNext]_vars

(* end_session has just returned for a session of the registry *)
Finalized ==
    /\ op.fn = "end_session"
    /\ op.session_id \in 1..Len(active_sessions)

FinalizedSession == active_sessions[op.session_id]

TrueCount(evaluations) ==
    Cardinality({ i \in 1..Len(evaluations) : evaluations[i][1] = PyBool(TRUE) })

VerdictsOf(evaluations) == [i \in 1..Len(evaluations) |-> evaluations[i][1]]

SampleVerdicts == <<PyBool(TRUE), PyBool(FALSE), PyBool(TRUE)>>

(* C12 as stated: finalizing a session sets and returns the integer
   percentage of its evaluations with is_correct = true, and for the
   evaluations [true, false, true] that score is 67. *)
C12_SampleScoreIs67 ==
    Finalized =>
        /\ result = Returned(PyInt(FinalizedSession.score))
        /\ VerdictsOf(FinalizedSession.evaluations) = SampleVerdicts
              => FinalizedSession.score = 67

(* C12 amended: finalizing a session marks it ended and sets and returns its
   score, the percentage of its evaluations with is_correct = true truncated
   to an integer (left at its stored value when there are no evaluations);
   for the evaluations [true, false, true] the score is 66. *)
C12_ScoreIsTruncatedPercentage ==
    Finalized =>
        LET session == FinalizedSession
            total == Len(session.evaluations)
        IN  /\ session.ended
            /\ result = Returned(PyInt(session.score))
            /\ total > 0 =>
                  /\ session.score * total <= 100 * TrueCount(session.evaluations)
                  /\ 100 * TrueCount(session.evaluations) < (session.score + 1) * total
            /\ total = 0 => session.score = 0
            /\ VerdictsOf(session.evaluations) = SampleVerdicts => session.score = 66

C12_Witness ==
    /\ Finalized
    /\ VerdictsOf(FinalizedSession.evaluations) = SampleVerdicts
    /\ FinalizedSession.score = 66
    /\ result = Returned(PyInt(66))

(***************************************************************************)
(* app.py: the handlers on_generate and submit_answer over the registry.   *)
(* Each handler runs to its return in one step; the completion call inside *)
(* it ends with one of the outcomes of _make_api_request.                  *)
(***************************************************************************)
MaxSessions == 2

(* "Look at the image" *)
LookAtTheImage ==
    <<"L","o","o","k"," ","a","t"," ","t","h","e"," ","i","m","a","g","e">>
(* "A visual representation of " *)
VisualRepresentationOf ==
    <<"A"," ","v","i","s","u","a","l"," ","r","e","p","r","e","s","e","n","t","a","t","i","o",
      "n"," ","o","f"," ">>
(* os.path.relpath(img_path, ...), the uuid4 in the file name left out *)
QuestionImagePath ==
    <<"u","p","l","o","a","d","s","/","i","m","a","g","e","s","/","q","u","e","s","t","i","o",
      "n",".","p","n","g">>
(* "Error generating question: " *)
ErrorGeneratingQuestion ==
    <<"E","r","r","o","r"," ","g","e","n","e","r","a","t","i","n","g"," ","q","u","e","s","t",
      "i","o","n",":"," ">>
(* str(e) of the TypeError raised by unpacking None into five names *)
CannotUnpackNone ==
    <<"c","a","n","n","o","t"," ","u","n","p","a","c","k"," ","n","o","n","-","i","t","e","r",
      "a","b","l","e"," ","N","o","n","e","T","y","p","e"," ","o","b","j","e","c","t">>
(* f"Audio answer submitted (file: {os.path.basename(answer_media)})" *)
AudioAnswerSubmitted ==
    <<"A","u","d","i","o"," ","a","n","s","w","e","r"," ","s","u","b","m","i","t","t","e","d",
      " ","(","f","i","l","e",":"," ","a","n","s","w","e","r",".","w","a","v",")">>
(* "Image answer submitted" *)
ImageAnswerSubmitted ==
    <<"I","m","a","g","e"," ","a","n","s","w","e","r"," ","s","u","b","m","i","t","t","e","d">>
(* media_processor.save_uploaded_file(answer_media, "audio"), timestamp and uuid4 left out *)
SavedAudioPath ==
    <<"a","u","d","i","o","/","a","n","s","w","e","r",".","w","a","v">>
(* media_processor.save_uploaded_file(temp_img.name, "image"), timestamp and uuid4 left out *)
SavedImagePath ==
    <<"i","m","a","g","e","s","/","a","n","s","w","e","r",".","p","n","g">>
(* "Result: " *)
ResultPrefix ==
    <<"R","e","s","u","l","t",":"," ">>
(* "Correct" *)
CorrectLabel ==
    <<"C","o","r","r","e","c","t">>
(* "Needs Improvement" *)
NeedsImprovementLabel ==
    <<"N","e","e","d","s"," ","I","m","p","r","o","v","e","m","e","n","t">>
(* "Error evaluating answer: " *)
ErrorEvaluatingAnswer ==
    <<"E","r","r","o","r"," ","e","v","a","l","u","a","t","i","n","g"," ","a","n","s","w","e",
      "r",":"," ">>
(* str(e) of the AttributeError raised by None.lower() *)
NoneHasNoLower ==
    <<"'","N","o","n","e","T","y","p","e","'"," ","o","b","j","e","c","t"," ","h","a","s"," ",
      "n","o"," ","a","t","t","r","i","b","u","t","e"," ","'","l","o","w","e","r","'">>

(* app.generate_question after question_generator.generate_question gave
   question_data: the five values returned, PyNone when no branch returns *)
ShowQuestion(skill, question_type, question_data) ==
    CASE question_type = "Text" ->
            PyList(<<question_data.question_content, question_data.expected_answer,
                     PyStr(<<>>), PyNone, PyNone>>)
      [] question_type = "Audio" ->
            PyList(<<question_data.question_content, question_data.expected_answer,
                     question_data.question_content, PyNone, PyNone>>)
      [] question_type = "Image" ->
            LET given == question_data.image_description
                content == question_data.question_content.v
                image_description ==
                    IF Truthy(given) THEN given
                    ELSE IF Contains(content, LookAtTheImage)
                         THEN PyStr(Strip(SplitHead(content, LookAtTheImage), StripSpace))
                         ELSE PyStr(VisualRepresentationOf \o skill)
            IN  PyList(<<question_data.question_content, question_data.expected_answer,
                         image_description, PyStr(QuestionImagePath), PyStr(<<"i","m","g">>)>>)
      [] OTHER -> PyNone

(* the entry on_generate appends to the session's questions *)
QuestionEntry(shown, question_type) ==
    [question |-> shown.v[1],
     expected_answer |-> shown.v[2],
     question_type |-> question_type,
     media |-> shown.v[4]]

(* as if on_generate left current_question_index as start_session set it *)
MutOnGenerate(skill, level, question_type, completion) ==
    /\ pc = "idle"
    /\ Len(active_sessions) < MaxSessions
    /\ op' = [fn |-> "on_generate", skill |-> skill, level |-> level,
              question_type |-> question_type]
    /\ LET started == StartSession(active_sessions, skill, level)
           session_id_val == Len(started)
           question_data == GenerateQuestion(skill, level, question_type, completion)
           shown == ShowQuestion(skill, question_type, question_data)
       IN  IF shown = PyNone
           THEN /\ active_sessions' = started
                /\ result' = Returned([session_id |-> 0])
           ELSE /\ active_sessions' =
                      [started EXCEPT ![session_id_val] =
                          [@ EXCEPT !.questions = Append(@, QuestionEntry(shown, question_type))]]
                /\ result' = Returned([session_id |-> session_id_val])
    /\ UNCHANGED <<pc, idx, requests, responses, api_result>>

(* on_generate(skill, level, question_type): a new session is started, the
   question generated and appended to that session; unpacking the PyNone that
   generate_question gives for an unsupported type raises, and the handler
   returns its error values with the session left as started *)
OnGenerate(skill, level, question_type, completion) ==
    /\ pc = "idle"
    /\ Len(active_sessions) < MaxSessions
    /\ op' = [fn |-> "on_generate", skill |-> skill, level |-> level,
              question_type |-> question_type]
    /\ LET started == StartSession(active_sessions, skill, level)
           session_id_val == Len(started)
           question_data == GenerateQuestion(skill, level, question_type, completion)
           shown == ShowQuestion(skill, question_type, question_data)
       IN  IF shown = PyNone
           THEN /\ active_sessions' = started
                /\ result' = Returned([question |-> PyStr(ErrorGeneratingQuestion \o CannotUnpackNone),
                                       expected_answer |-> PyStr(<<>>),
                                       session_id |-> 0,
                                       question_type |-> "Text",
                                       media_path |-> PyNone])
           ELSE /\ active_sessions' =
                      [started EXCEPT ![session_id_val] =
                          [@ EXCEPT !.questions = Append(@, QuestionEntry(shown, question_type)),
                                    !.current_question_index = @ + 1]]
                /\ result' = Returned([question |-> shown.v[1],
                                       expected_answer |-> shown.v[2],
                                       session_id |-> session_id_val,
                                       question_type |-> question_type,
                                       media_path |-> shown.v[4]])
    /\ UNCHANGED <<pc, idx, requests, responses, api_result>>

(* f"Result: {'Correct' if is_correct else 'Needs Improvement'}\n\n{explanation}" *)
ResultText(is_correct, explanation) ==
    ResultPrefix
    \o (IF Truthy(is_correct) THEN CorrectLabel ELSE NeedsImprovementLabel)
    \o <<"\n", "\n">> \o StrOf(explanation)

(* submit_answer's body: the answer's media is saved and the answer text
   replaced, the answer evaluated, the result formatted; an exception gives
   the error text and False *)
SubmitAnswerResult(expected_answer, student_answer, answer_type, answer_media, heard, completion) ==
    LET with_media == answer_type \in {"Audio", "Image"} /\ answer_media # PyNone
        answer_media_path ==
            IF ~with_media THEN PyNone
            ELSE IF answer_type = "Audio" THEN PyStr(SavedAudioPath)
            ELSE PyStr(SavedImagePath)
        answer ==
            IF ~with_media THEN student_answer
            ELSE IF answer_type = "Audio" THEN PyStr(AudioAnswerSubmitted)
            ELSE PyStr(ImageAnswerSubmitted)
        evaluation ==
            EvaluateAnswer(ProcessAnswer(answer, answer_type, answer_media_path, heard),
                           expected_answer, completion)
    IN  IF evaluation.k = "return"
        THEN PyList(<<PyStr(ResultText(evaluation.v.is_correct, evaluation.v.explanation)),
                      evaluation.v.is_correct>>)
        ELSE PyList(<<PyStr(ErrorEvaluatingAnswer \o NoneHasNoLower), PyBool(FALSE)>>)

(* submit_answer(...) for the question of a session: the arguments are the
   values on_generate returned for it, which the page holds *)
SubmitAnswer(session_id, student_answer, answer_type, answer_media, heard, completion) ==
    /\ pc = "idle"
    /\ session_id \in 1..Len(active_sessions)
    /\ active_sessions[session_id].questions # <<>>
    /\ LET asked == active_sessions[session_id].questions[1]
       IN  /\ op' = [fn |-> "submit_answer", session_id |-> session_id,
                     student_answer |-> student_answer, answer_type |-> answer_type,
                     answer_media |-> answer_media]
           /\ result' = Returned(SubmitAnswerResult(asked.expected_answer, student_answer,
                                                   answer_type, answer_media, heard, completion))
    /\ UNCHANGED <<pc, idx, requests, responses, api_result, active_sessions>>

(* what the completion call inside on_generate ends with *)
GenerationCompletions ==
    { Outcomes[TextQuestionResponse], AllModelsFailed("QuestionGenerator") }

(* the answers submitted, each with what the completion call inside
   evaluate_answer ends with *)
Submissions ==
    { [student_answer |-> PyStr(SampleAnswer), answer_type |-> "Text",
       answer_media |-> PyNone, completion |-> Outcomes[VerdictResponse]],
      [student_answer |-> PyStr(SampleAnswer), answer_type |-> "Text",
       answer_media |-> PyNone, completion |-> AllModelsFailed("Evaluator")],
      [student_answer |-> PyStr(<<>>), answer_type |-> "Audio",
       answer_media |-> PyStr(SampleMediaPath), completion |-> AllModelsFailed("Evaluator")],
      [student_answer |-> PyStr(<<>>), answer_type |-> "Image",
       answer_media |-> PyNone, completion |-> Outcomes[StringVerdictResponse]] }

SessionNext ==
    \/ \E question_type \in RequestedTypes, completion \in GenerationCompletions :
          OnGenerate(Communication, "Beginner", question_type, completion)
    \/ \E session_id \in 1..MaxSessions, submission \in Submissions :
          SubmitAnswer(session_id, submission.student_answer, submission.answer_type,
                       submission.answer_media, PyStr(SampleTranscript),
                       submission.completion)
    \/ \E session_id \in 1..(MaxSessions + 1) : EndSession(session_id)

SessionSpec == Init /\ [][SessionNext]_vars

(* submit_answer has just returned an evaluation of the question of a session *)
AnsweredAndEvaluated ==
    /\ op.fn = "submit_answer"
    /\ result.k = "return"
    /\ ~StartsWithAt(result.v.v[1].v, 1, ErrorEvaluatingAnswer)

(* C13: once each generated question of a session has been answered and
   evaluated, the session records as many evaluations as questions. *)
C13_QuestionsMatchEvaluations ==
    AnsweredAndEvaluated =>
        Len(active_sessions[op.session_id].questions)
            = Len(active_sessions[op.session_id].evaluations)

(* submit_answer records nothing: no session ever holds an answer or an
   evaluation *)
NothingRecorded ==
    \A s \in 1..Len(active_sessions) :
        active_sessions[s].answers = <<>> /\ active_sessions[s].evaluations = <<>>

(***************************************************************************)
(* Further properties of evaluate_answer and generate_question (checked    *)
(* under Spec).                                                            *)
(***************************************************************************)
(* the completion call gave an object with both is_correct and explanation *)
RemoteVerdict ==
    /\ api_result.k = "return"
    /\ api_result.v.k = "dict"
    /\ DictHas(api_result.v, IsCorrectKey)
    /\ DictHas(api_result.v, ExplanationKey)

(* C14: every evaluation evaluate_answer returns has a boolean is_correct and
   a text explanation, on the remote path (whatever JSON types the remote
   object gives the two fields) and on the fallback path. *)
C14_EvaluationIsBooleanAndText ==
    (Evaluated /\ result.k = "return") =>
        /\ result.v.is_correct.k = "bool"
        /\ result.v.explanation.k = "str"

(* on the fallback path the two fields do have these types *)
FallbackEvaluationIsBooleanAndText ==
    (Evaluated /\ result.k = "return" /\ ~RemoteVerdict) =>
        /\ result.v.is_correct.k = "bool"
        /\ result.v.explanation.k = "str"

(* C15: evaluate_answer gives the fallback grader's result, computed from the
   normalized answer and the expected answer, exactly when the completion
   call raises or returns a value that is not an object with both is_correct
   and explanation; when it returns such an object, the verdict and the
   explanation are that object's and the grader's result is not used. *)
C15_FallbackExactlyWhenNoRemoteVerdict ==
    Evaluated =>
        IF RemoteVerdict
        THEN LET given == DictGet(api_result.v, IsCorrectKey)
             IN  /\ result.k = "return"
                 /\ result.v.explanation = DictGet(api_result.v, ExplanationKey)
                 /\ given.k # "str" => result.v.is_correct = given
                 /\ given.k = "str" => result.v.is_correct.k = "bool"
        ELSE result = FallbackEvaluation(op.processed_answer, op.expected_answer)

(* C15 witness: the completion an object without explanation, the grader's
   result returned, which differs from the object's verdict *)
C15_Witness ==
    /\ Evaluated
    /\ api_result = JsonLoads(NoExplanationText)
    /\ op.processed_answer = PyStr(SampleAnswer)
    /\ op.expected_answer = PyStr(SampleKeyPoints)
    /\ result = FallbackEvaluation(PyStr(SampleAnswer), PyStr(SampleKeyPoints))
    /\ result.k = "return"
    /\ result.v.is_correct = PyBool(TRUE)

(* the table's entry of a level, written out; Intermediate's for any level
   that is neither Beginner nor Advanced *)
LevelEntry(skill, level) ==
    CASE level = "Beginner" ->
            [question |-> PyStr(BeginnerQuestion(skill)),
             expected_answer |-> PyStr(BeginnerExpectedAnswer(skill))]
      [] level = "Advanced" ->
            [question |-> PyStr(AdvancedQuestion(skill)),
             expected_answer |-> PyStr(AdvancedExpectedAnswer(skill))]
      [] OTHER ->
            [question |-> PyStr(IntermediateQuestion(skill)),
             expected_answer |-> PyStr(IntermediateExpectedAnswer(skill))]

(* C16: the static fallback question is selected by level: Beginner,
   Intermediate and Advanced each select their own entry, and a level that is
   not in the table selects the Intermediate entry. *)
C16_FallbackSelectedByLevel ==
    (Generated /\ (op.question_type \notin QuestionTypes \/ api_result.k = "raise")) =>
        LET entry == LevelEntry(op.skill, op.level)
        IN  /\ result.k = "return"
            /\ IF op.question_type \in QuestionTypes
               THEN UsesStaticEntry(result.v, entry)
               ELSE result.v = entry
            /\ \A other \in FallbackLevels :
                  (op.level \in FallbackLevels /\ other # op.level)
                      => LevelEntry(op.skill, other) # entry

(* C16 witness: a level the table does not have, the Intermediate entry
   returned *)
C16_Witness ==
    /\ Generated
    /\ op.level = "Expert"
    /\ op.question_type = "Video"
    /\ result.v.question = PyStr(IntermediateQuestion(op.skill))
    /\ result.v.expected_answer = PyStr(IntermediateExpectedAnswer(op.skill))

(* C20: when the remote object has both keys and is_correct is a string, the
   verdict returned is true if the string is "true" ignoring case and false
   for "false" ignoring case and for every other string; a boolean
   is_correct is returned unchanged. *)
C20_StringVerdictCoerced ==
    (Evaluated /\ RemoteVerdict) =>
        LET given == DictGet(api_result.v, IsCorrectKey)
        IN  /\ result.k = "return"
            /\ given.k = "str" =>
                  result.v.is_correct = PyBool(Lower(given.v) = <<"t","r","u","e">>)
            /\ given.k = "bool" => result.v.is_correct = given

(* C20 witness: the remote verdict "True" returned as the boolean true *)
C20_Witness ==
    /\ Evaluated
    /\ RemoteVerdict
    /\ DictGet(api_result.v, IsCorrectKey) = PyStr(<<"T","r","u","e">>)
    /\ result.k = "return"
    /\ result.v.is_correct = PyBool(TRUE)

(* the string verdicts "FALSE" and "yes" both come back false *)
OtherStringsAreFalse ==
    (Evaluated /\ RemoteVerdict
     /\ DictGet(api_result.v, IsCorrectKey) \in
           {PyStr(<<"F","A","L","S","E">>), PyStr(<<"y","e","s">>)})
    => result.v.is_correct = PyBool(FALSE)

(***************************************************************************)
(* Further properties of the completion call (checked under ClientSpec).   *)
(***************************************************************************)
(* C17: within one completion call the candidate models are requested
   strictly in list order, the primary first, each at most once, and no
   request is issued once a candidate has given a parseable JSON; a call
   issues at most 1 + (number of alternates) requests. *)
C17_RequestsInListOrderUntilJson ==
    /\ Len(requests) <= 1 + Len(AlternativeModels)
    /\ Len(responses) = Len(requests)
    /\ \A i \in 1..Len(requests) :
          /\ requests[i].model = (<<PrimaryModel>> \o AlternativeModels)[i]
          /\ \A j \in 1..Len(requests) : requests[j].model = requests[i].model => j = i
    /\ \A i \in Yielding : i = Len(requests) /\ pc = "done"

(* C17 witness: all five models requested, the last one giving the JSON *)
C17_Witness ==
    /\ pc = "done"
    /\ Len(requests) = 5
    /\ requests[5].model = AlternativeModels[4]
    /\ Yielding = {5}
    /\ result.k = "return"

(* the ways one attempt fails *)
FailureKind(response) ==
    IF response.exception THEN "exception"
    ELSE IF response.status = 404 /\ response.not_found THEN "model not found"
    ELSE IF response.status # 200 THEN "status"
    ELSE IF ParsedBody(response).k # "return" THEN "unparseable"
    ELSE "none"

(* C18: a failed attempt never aborts the call: a non-200 status other than
   the model-not-found 404, a network exception and an HTTP 200 without
   parseable JSON each make the call go on to the next candidate, as the
   model-not-found 404 does. *)
C18_FailedAttemptGoesOn ==
    \A n \in 1..Len(responses) :
        (FailureKind(responses[n]) # "none" /\ n < Len(AllModels)) =>
            /\ Len(requests) > n \/ (pc = "request" /\ idx = n + 1)
            /\ Len(requests) = n => (api_result = PyNone /\ result = PyNone)

(* C18 witness: four attempts failed, one in each way, and the call is about
   to request the fifth model *)
C18_Witness ==
    /\ pc = "request"
    /\ idx = 5
    /\ Len(responses) = 4
    /\ FailureKind(responses[1]) = "status"
    /\ FailureKind(responses[2]) = "exception"
    /\ FailureKind(responses[3]) = "unparseable"
    /\ FailureKind(responses[4]) = "model not found"

(* C19: whenever the completion call returns rather than fails, the value it
   returns is a JSON object, never an array, string, number, boolean or
   null. *)
C19_ReturnsJsonObject ==
    (pc = "done" /\ op.fn = "complete" /\ result.k = "return") => result.v.k = "dict"

(***************************************************************************)
(* Properties of _process_question and _process_answer (checked under      *)
(* Spec, on the calls of evaluate_answer).                                 *)
(***************************************************************************)
(* "\n\nAudio Transcript: " *)
AudioTranscriptLabel ==
    <<"\n","\n","A","u","d","i","o"," ","T","r","a","n","s","c","r","i","p","t",":"," ">>
(* "Audio Answer Transcript: " *)
AudioAnswerLabel ==
    <<"A","u","d","i","o"," ","A","n","s","w","e","r"," ","T","r","a","n","s","c","r","i","p",
      "t",":"," ">>
(* "Image Answer Description: " *)
ImageAnswerLabel ==
    <<"I","m","a","g","e"," ","A","n","s","w","e","r"," ","D","e","s","c","r","i","p","t","i",
      "o","n",":"," ">>
(* "No answer provided" *)
StatedPlaceholder ==
    <<"N","o"," ","a","n","s","w","e","r"," ","p","r","o","v","i","d","e","d">>
(* "Look at the image and answer the following question:\n\n" *)
StatedImageInstruction ==
    <<"L","o","o","k"," ","a","t"," ","t","h","e"," ","i","m","a","g","e"," ","a","n","d"," ",
      "a","n","s","w","e","r"," ","t","h","e"," ","f","o","l","l","o","w","i","n","g"," ","q",
      "u","e","s","t","i","o","n",":","\n","\n">>

Normalized == op.fn = "evaluate"

(* the texts transcribe_audio gives in the model: the endpoint's transcript
   or the placeholder *)
Transcriptions == {SampleTranscript, FallbackTranscription}

(* question, two newlines, "Audio Transcript: ", transcript *)
TranscriptAppended(question, transcript) ==
    question \o AudioTranscriptLabel \o transcript

(* C21 as stated: a Text and an Image question are normalized to themselves,
   with or without question_media; an Audio question is normalized to the
   question with a transcription of question_media appended. *)
C21_AudioQuestionGetsTranscript ==
    Normalized =>
        /\ op.question_type \in {"Text", "Image"} => op.processed_question = op.question
        /\ op.question_type = "Audio" =>
              \E transcript \in Transcriptions :
                  op.processed_question = PyStr(TranscriptAppended(op.question.v, transcript))

(* C21 amended: a Text and an Image question are normalized to themselves,
   with or without question_media; an Audio question with question_media is
   normalized to the question followed by "\n\nAudio Transcript: " and a
   transcription of the media; an Audio question without question_media is
   normalized to itself. *)
C21_AudioQuestionWithMediaGetsTranscript ==
    Normalized =>
        /\ op.question_type \in {"Text", "Image"} => op.processed_question = op.question
        /\ (op.question_type = "Audio" /\ op.question_media # PyNone) =>
              \E transcript \in Transcriptions :
                  op.processed_question = PyStr(TranscriptAppended(op.question.v, transcript))
        /\ (op.question_type = "Audio" /\ op.question_media = PyNone) =>
              op.processed_question = op.question

(* C21 witness: an Audio question with media, the endpoint's transcript
   appended *)
C21_Witness ==
    /\ Normalized
    /\ op.question_type = "Audio"
    /\ op.question_media = PyStr(SampleMediaPath)
    /\ op.processed_question = PyStr(TranscriptAppended(SampleQuestion, SampleTranscript))

(* C22: a Text answer passes through; an Audio answer with media is replaced
   by a transcription of answer_media; an Image answer with media is replaced
   by a caption labeled "Image Answer Description: "; and whenever there is
   no media and no non-empty text answer, for any answer_type, the normalized
   answer is the literal "No answer provided". *)
C22_AnswerNormalized ==
    Normalized =>
        /\ (op.answer_type = "Text" /\ Truthy(op.student_answer)) =>
              op.processed_answer = op.student_answer
        /\ (op.answer_type = "Audio" /\ op.answer_media # PyNone) =>
              \E transcript \in Transcriptions :
                  op.processed_answer = PyStr(AudioAnswerLabel \o transcript)
        /\ (op.answer_type = "Image" /\ op.answer_media # PyNone) =>
              /\ op.processed_answer.k = "str"
              /\ StartsWithAt(op.processed_answer.v, 1, ImageAnswerLabel)
        /\ (op.answer_media = PyNone /\ ~Truthy(op.student_answer)) =>
              op.processed_answer = PyStr(StatedPlaceholder)

(* the placeholder is substituted for the Audio and Image answer types *)
PlaceholderForMediaTypes ==
    (Normalized /\ op.answer_type \in {"Audio", "Image"}
     /\ op.answer_media = PyNone /\ ~Truthy(op.student_answer))
    => op.processed_answer = PyStr(NoAnswerProvided)

(* C23: every Image question generate_question returns, built from the
   remote response or from the static fallback, has as question_content
   "Look at the image and answer the following question:\n\n" followed by
   the question, and carries a non-empty image_description. *)
C23_ImageQuestionComposed ==
    (Generated /\ op.question_type = "Image") =>
        LET question ==
                IF api_result.k = "return"
                   /\ HasKeys(api_result.v, RequiredKeys("Image"))
                THEN DictGet(api_result.v, QuestionKey)
                ELSE StaticEntry(op.skill, op.level).question
        IN  /\ result.k = "return"
            /\ result.v.question_content =
                  PyStr(StatedImageInstruction \o StrOf(question))
            /\ "image_description" \in DOMAIN result.v
            /\ NonEmptyText(result.v.image_description)

(* built from the remote response, the content is composed as stated *)
RemoteImageQuestionComposed ==
    (Generated /\ op.question_type = "Image"
     /\ api_result.k = "return" /\ HasKeys(api_result.v, RequiredKeys("Image")))
    => result.v.question_content =
          PyStr(StatedImageInstruction \o StrOf(DictGet(api_result.v, QuestionKey)))

(***************************************************************************)
(* The status-200 branch's choice of the response string on its own:       *)
(* response bodies drawn from a bounded set of shapes.                     *)
(***************************************************************************)
IndexKey == <<"i","n","d","e","x">>
IdKey == <<"i","d">>

(* what the body has under "text": nothing, a text, null *)
TextFields == { <<>>, << <<TextKey, PyStr(<<"{","}">>)>> >>, << <<TextKey, PyNone>> >> }

(* what the body has under "choices" *)
ChoicesFields ==
    { <<>>,
      << <<ChoicesKey, PyList(<<>>)>> >>,
      << <<ChoicesKey, PyList(<<TextBody(PyStr(<<"[","]">>))>>)>> >>,
      << <<ChoicesKey, PyList(<<TextBody(PyStr(<<"7">>)), TextBody(PyStr(<<"8">>))>>)>> >>,
      << <<ChoicesKey, PyList(<<PyDict(<<>>)>>)>> >>,
      << <<ChoicesKey, PyList(<<PyDict(<< <<IndexKey, PyInt(0)>> >>)>>)>> >>,
      << <<ChoicesKey, PyList(<<PyStr(<<"x">>)>>)>> >>,
      << <<ChoicesKey, PyStr(<<"a","b">>)>> >>,
      << <<ChoicesKey, PyNone>> >> }

OtherFields == { <<>>, << <<IdKey, PyInt(7)>> >> }

ContentBodies ==
    { PyDict(other \o text \o choices) :
        other \in OtherFields, text \in TextFields, choices \in ChoicesFields }
    \cup { PyList(<<PyInt(1), PyInt(2)>>), PyList(<<PyStr(TextKey)>>),
           PyStr(<<"n","o"," ","t","e","x","t">>), PyInt(7), PyNone }

ContentInit ==
    /\ pc = "body"
    /\ op \in [body : ContentBodies]
    /\ idx = 0
    /\ requests = <<>>
    /\ responses = <<>>
    /\ api_result = PyNone
    /\ result = PyNone
    /\ active_sessions = <<>>

(* lines "Extract content based on API structure" of the status-200 branch *)
TakeContent ==
    /\ pc = "body"
    /\ result' = ResponseContent(op.body)
    /\ pc' = "content"
    /\ UNCHANGED <<op, idx, requests, responses, api_result, active_sessions>>

ContentNext == TakeContent

ContentSpec == ContentInit /\ [][ContentNext]_vars

(* a body of the shapes the endpoint is expected to give: an object whose
   text, if any, is a text and whose choices, if any, is an array of objects *)
ExpectedShape(body) ==
    /\ body.k = "dict"
    /\ DictHas(body, TextKey) => DictGet(body, TextKey).k = "str"
    /\ DictHas(body, ChoicesKey) =>
          /\ DictGet(body, ChoicesKey).k = "list"
          /\ \A i \in 1..Len(DictGet(body, ChoicesKey).v) :
                DictGet(body, ChoicesKey).v[i].k = "dict"

FirstChoice(body) == DictGet(body, ChoicesKey).v[1]

HasFirstChoice(body) ==
    DictHas(body, ChoicesKey) /\ Len(DictGet(body, ChoicesKey).v) > 0

(* C24: on HTTP 200 the response string is the top-level text field if
   present; otherwise choices[0].text; otherwise (no shape gives a text, a
   choices entry without a text field and an empty choices array included)
   the stringified whole body. *)
C24_ContentFromFirstMatchingShape ==
    (pc = "content" /\ ExpectedShape(op.body)) =>
        result =
            Returned(IF DictHas(op.body, TextKey) THEN DictGet(op.body, TextKey)
                     ELSE IF HasFirstChoice(op.body) /\ DictHas(FirstChoice(op.body), TextKey)
                          THEN DictGet(FirstChoice(op.body), TextKey)
                     ELSE PyStr(StrOf(op.body)))

(* what the code does with a first choice that has no text field: the
   response string is empty *)
ChoiceWithoutTextGivesEmpty ==
    (/\ pc = "content"
     /\ ExpectedShape(op.body)
     /\ ~DictHas(op.body, TextKey)
     /\ HasFirstChoice(op.body)
     /\ ~DictHas(FirstChoice(op.body), TextKey))
    => result = Returned(PyStr(<<>>))

(* in every other expected shape the response string is as stated *)
OtherShapesAsStated ==
    (/\ pc = "content"
     /\ ExpectedShape(op.body)
     /\ ~(/\ ~DictHas(op.body, TextKey)
          /\ HasFirstChoice(op.body)
          /\ ~DictHas(FirstChoice(op.body), TextKey)))
    => result =
          Returned(IF DictHas(op.body, TextKey) THEN DictGet(op.body, TextKey)
                   ELSE IF HasFirstChoice(op.body)
                        THEN DictGet(FirstChoice(op.body), TextKey)
                   ELSE PyStr(StrOf(op.body)))

(***************************************************************************)
(* _extract_json on its own: texts in which the strategies apply or fail   *)
(* in every combination.                                                   *)
(***************************************************************************)
(* object texts with no member and with one member *)
StrategyObjects ==
    { ObjectText(<<>>, FALSE) }
    \cup { ObjectText(<<val>>, TRUE) : val \in JsonValueTexts \ { <<"\"">> \o Fence \o <<"\"">> } }

(* texts that are not JSON: without braces, and with an opening brace *)
NotJsonTexts == { <<"n","o","p","e">>, <<"{","b","r","o","k","e","n">> }

StrategyLayouts ==
    { "bare", "prose", "json fence", "json fence without json", "fence",
      "fence without json", "open json fence", "no json", "two objects",
      "fence then json fence" }

(* the text of a layout around the object text J and the non-JSON text N *)
Laid(layout, J, N) ==
    CASE layout = "bare" -> J
      [] layout = "prose" -> <<"H","e","r","e",":"," ">> \o J \o <<" ","D","o","n","e">>
      [] layout = "json fence" -> JsonFence \o <<"\n">> \o J \o <<"\n">> \o Fence
      [] layout = "json fence without json" ->
            JsonFence \o <<" ">> \o N \o <<" ">> \o Fence \o <<" ">> \o J
      [] layout = "fence" -> Fence \o <<"\n">> \o J \o <<"\n">> \o Fence
      [] layout = "fence without json" ->
            Fence \o <<" ">> \o N \o <<" ">> \o Fence \o <<" ">> \o J
      [] layout = "open json fence" -> JsonFence \o <<"\n">> \o J
      [] layout = "no json" -> N
      [] layout = "two objects" -> J \o <<" ","a","n","d"," ">> \o J
      [] layout = "fence then json fence" ->
            Fence \o <<" ">> \o N \o <<" ">> \o Fence \o <<" ">>
            \o JsonFence \o <<" ">> \o J \o <<" ">> \o Fence

StrategyTexts ==
    { Laid(layout, J, N) : layout \in StrategyLayouts, J \in StrategyObjects, N \in NotJsonTexts }

StrategyInit ==
    /\ pc = "text"
    /\ op \in [text : StrategyTexts]
    /\ idx = 0
    /\ requests = <<>>
    /\ responses = <<>>
    /\ api_result = PyNone
    /\ result = PyNone
    /\ active_sessions = <<>>

(* json_str = self._extract_json(content) *)
ExtractText ==
    /\ pc = "text"
    /\ result' = Returned(PyStr(ExtractJson(op.text)))
    /\ pc' = "json_str"
    /\ UNCHANGED <<op, idx, requests, responses, api_result, active_sessions>>

StrategyNext == ExtractText

StrategySpec == StrategyInit /\ [][StrategyNext]_vars

(* the text after the first occurrence of opening, up to the next fence,
   without the whitespace at its ends *)
FencedContent(text, opening) ==
    LET after == SubSeq(text, Find(text, opening) + Len(opening), Len(text))
        upto == IF Contains(after, Fence) THEN SubSeq(after, 1, Find(after, Fence) - 1)
                ELSE after
    IN  Strip(upto, StripSpace)

Parses(text) == JsonLoads(text).k = "return"

(* from the first opening brace to the last closing brace after it *)
Braced(text) ==
    LET opens == { i \in 1..Len(text) : text[i] = "{" }
        first == CHOOSE i \in opens : \A j \in opens : i <= j
        closes == { i \in first..Len(text) : text[i] = "}" }
        last == CHOOSE i \in closes : \A j \in closes : j <= i
    IN  SubSeq(text, first, last)

HasBraced(text) ==
    \E i \in 1..Len(text) : text[i] = "{" /\ \E j \in i..Len(text) : text[j] = "}"

(* C25 as stated: the strategies are tried in a fixed order and the first
   that applies is returned: the content of a json fenced block; otherwise
   the content of a fenced block that parses as JSON; otherwise the text from
   the first opening brace to the last closing brace; a later strategy is
   used whenever an earlier one gives no parseable JSON. *)
C25_LaterStrategyWhenNoJson ==
    pc = "json_str" =>
        result.v.v =
            IF Contains(op.text, JsonFence) /\ Parses(FencedContent(op.text, JsonFence))
            THEN FencedContent(op.text, JsonFence)
            ELSE IF Contains(op.text, Fence) /\ Parses(FencedContent(op.text, Fence))
                 THEN FencedContent(op.text, Fence)
            ELSE IF HasBraced(op.text) THEN Braced(op.text)
            ELSE op.text

(* C25 amended: the strategies are tried in a fixed order: when the text has
   a json fence, the content of the json fenced block is returned, whether or
   not it parses; otherwise, when the text has a fence, the content of the
   fenced block if it parses as JSON; otherwise the text from the first
   opening brace to the last closing brace, if there is one; otherwise the
   text unchanged. *)
C25_JsonFenceNotVerified ==
    pc = "json_str" =>
        result.v.v =
            IF Contains(op.text, JsonFence)
            THEN FencedContent(op.text, JsonFence)
            ELSE IF Contains(op.text, Fence) /\ Parses(FencedContent(op.text, Fence))
                 THEN FencedContent(op.text, Fence)
            ELSE IF HasBraced(op.text) THEN Braced(op.text)
            ELSE op.text

(* C25 witness: a fenced block that is not JSON, followed by an object, which
   is what the brace match returns *)
C25_Witness ==
    /\ pc = "json_str"
    /\ op.text = Laid("fence without json", ObjectText(<<>>, FALSE), <<"n","o","p","e">>)
    /\ result.v.v = ObjectText(<<>>, FALSE)

(***************************************************************************)
(* Properties of the session registry (checked under SessionSpec).         *)
(***************************************************************************)
IsPrefix(s, u) == Len(s) <= Len(u) /\ SubSeq(u, 1, Len(s)) = s

(* C26: a session id added to the registry by start_session is in the
   registry in every later state: no operation, end_session included, removes
   or replaces a session; the registry only grows. *)
C26_RegistryOnlyGrows ==
    [][/\ Len(active_sessions') >= Len(active_sessions)
       /\ \A s \in 1..Len(active_sessions) :
             /\ active_sessions'[s].skill = active_sessions[s].skill
             /\ active_sessions'[s].level = active_sessions[s].level
             /\ IsPrefix(active_sessions[s].questions, active_sessions'[s].questions)
             /\ active_sessions[s].ended => active_sessions'[s].ended]_vars

(* C26 witness: the first of two sessions has been ended and both are in the
   registry *)
C26_Witness ==
    /\ op.fn = "end_session"
    /\ op.session_id = 1
    /\ Len(active_sessions) = 2
    /\ active_sessions[1].ended
    /\ ~active_sessions[2].ended

(* C28: in every reachable state each session of the registry has
   current_question_index = len(questions) - 1, and, every on_generate call
   starting a session of its own, at most one question. *)
C28_IndexFollowsQuestions ==
    \A s \in 1..Len(active_sessions) :
        /\ active_sessions[s].current_question_index
              = Len(active_sessions[s].questions) - 1
        /\ Len(active_sessions[s].questions) <= 1

(* C28 witness: two on_generate calls, two sessions of one question each *)
C28_Witness ==
    /\ op.fn = "on_generate"
    /\ Len(active_sessions) = 2
    /\ \A s \in 1..2 :
          /\ Len(active_sessions[s].questions) = 1
          /\ active_sessions[s].current_question_index = 0

(***************************************************************************)
(* The fields of generate_question's result (checked under Spec).          *)
(***************************************************************************)
(* C27: generate_question returns a result with the same fields for every
   question_type value: for a type outside Text, Audio and Image too the
   result has question_type, question_content, expected_answer and
   media_path. *)
C27_SameFieldsForEveryType ==
    Generated =>
        /\ result.k = "return"
        /\ {"question_type", "question_content", "expected_answer", "media_path"}
              \subseteq DOMAIN result.v

(* for the three supported types the four fields are there *)
SupportedTypesHaveFields ==
    (Generated /\ op.question_type \in QuestionTypes) =>
        {"question_type", "question_content", "expected_answer", "media_path"}
            \subseteq DOMAIN result.v

(***************************************************************************)
(* The grader on an answer and on a longer answer that has it as a         *)
(* substring, the expected answer the same.                                *)
(***************************************************************************)
MaxMonotoneWords == 2
MaxAffix == 1

MonotoneWords ==
    { <<"a","l","p","h","a">>,                  \* alpha
      <<"g","a","m","m","a","s">>,              \* gammas
      <<"a","l","p","h","a",CapitalSigma>>,     \* alpha and a capital sigma
      <<"b","e","t","a">> }                     \* beta

MonotoneExpected ==
    { Join(ws) : ws \in UNION { [1..n -> MonotoneWords] : n \in 0..MaxMonotoneWords } }

MonotoneStudent ==
    { <<>>,
      <<"a","l","p","h","a">>,
      <<"A","L","P","H","A",CapitalSigma>>,
      <<"g","a","m","m","a","s"," ","a","l","p","h","a">>,
      <<"d","e","l","t","a">> }

(* what is written before and after the answer to make the longer one *)
AffixChars == {"a", " ", ".", CapitalSigma}
Affixes == UNION { [1..n -> AffixChars] : n \in 0..MaxAffix }

MonotoneInputs ==
    { [expected |-> PyStr(e), student |-> PyStr(s), longer |-> PyStr(before \o s \o after)] :
        e \in MonotoneExpected, s \in MonotoneStudent, before \in Affixes, after \in Affixes }

MonotoneInit ==
    /\ pc = "answers"
    /\ op \in MonotoneInputs
    /\ idx = 0
    /\ requests = <<>>
    /\ responses = <<>>
    /\ api_result = PyNone
    /\ result = PyNone
    /\ active_sessions = <<>>

(* _fallback_evaluation called on the answer and on the longer answer *)
GradeBoth ==
    /\ pc = "answers"
    /\ result' = [student |-> FallbackEvaluation(op.student, op.expected),
                  longer |-> FallbackEvaluation(op.longer, op.expected)]
    /\ pc' = "both_graded"
    /\ UNCHANGED <<op, idx, requests, responses, api_result, active_sessions>>

MonotoneNext == GradeBoth

MonotoneSpec == MonotoneInit /\ [][MonotoneNext]_vars

(* the percentage an explanation reports: the digits before its % sign *)
ReportedPercent(explanation) ==
    LET s == explanation.v
        sign == Find(s, <<"%">>)
        first == CHOOSE i \in 1..sign :
                    /\ \A j \in i..(sign - 1) : IsDigit(s[j])
                    /\ i = 1 \/ ~IsDigit(s[i - 1])
    IN  DigitsValue(s, first, sign, 0)

BothGraded == pc = "both_graded"
GradedCorrect(evaluation) == evaluation.k = "return" /\ evaluation.v.is_correct = PyBool(TRUE)

(* C29: the fallback grader is monotone in the student answer: the expected
   answer fixed, if an answer s is graded correct and s is a substring of s'
   then s' is graded correct too, with a reported percentage not lower. *)
C29_FallbackGraderMonotone ==
    (/\ BothGraded
     /\ Contains(op.longer.v, op.student.v)
     /\ GradedCorrect(result.student))
    => /\ GradedCorrect(result.longer)
       /\ ReportedPercent(result.longer.v.explanation)
             >= ReportedPercent(result.student.v.explanation)

(* the grader is monotone in the lowered text: where lowering the longer
   answer keeps the lowered answer as a substring, the grade does not drop *)
MonotoneInLoweredText ==
    (/\ BothGraded
     /\ Contains(Lower(op.longer.v), Lower(op.student.v))
     /\ GradedCorrect(result.student))
    => /\ GradedCorrect(result.longer)
       /\ ReportedPercent(result.longer.v.explanation)
             >= ReportedPercent(result.student.v.explanation)

(***************************************************************************)
(* The two completion clients side by side: QuestionGenerator's and        *)
(* Evaluator's _make_api_request, each given the same answer for the       *)
(* model at the same position.                                             *)
(***************************************************************************)
Clients == {"QuestionGenerator", "Evaluator"}

ClientCall(client) == [fn |-> "complete", caller |-> client]

BothInit ==
    /\ pc = [client \in Clients |-> "request"]
    /\ op = [fn |-> "both"]
    /\ idx = [client \in Clients |-> 1]
    /\ requests = [client \in Clients |-> <<>>]
    /\ responses = <<>>
    /\ api_result = [client \in Clients |-> PyNone]
    /\ result = PyNone
    /\ active_sessions = <<>>

(* the pass of the loop ends it: a parsed JSON is returned, or the model was
   the last one *)
PassEnds(client, response) ==
    pc[client] = "request" /\ (Outcomes[response].k = "return" \/ idx[client] = Len(AllModels))

(* one pass of each client's loop that is still running, the endpoint's
   answer the same for both *)
AttemptBoth(response) ==
    /\ \E client \in Clients : pc[client] = "request"
    /\ responses' = Append(responses, response)
    /\ requests' = [client \in Clients |->
                       IF pc[client] = "request"
                       THEN Append(requests[client], Payload(ClientCall(client), idx[client]))
                       ELSE requests[client]]
    /\ api_result' = [client \in Clients |->
                         IF PassEnds(client, response)
                         THEN IF Outcomes[response].k = "return"
                              THEN Outcomes[response]
                              ELSE AllModelsFailed(client)
                         ELSE api_result[client]]
    /\ pc' = [client \in Clients |-> IF PassEnds(client, response) THEN "done" ELSE pc[client]]
    /\ idx' = [client \in Clients |->
                  IF pc[client] = "request" /\ ~PassEnds(client, response)
                  THEN idx[client] + 1
                  ELSE idx[client]]
    /\ UNCHANGED <<op, result, active_sessions>>

BothNext == \E response \in ClientResponses : AttemptBoth(response)

BothSpec == BothInit /\ [][BothNext]_vars

ModelsContacted(client) == [i \in 1..Len(requests[client]) |-> requests[client][i].model]

(* C30: the two completion clients are behaviourally equivalent: given the
   same per-model sequence of endpoint responses they contact the same models
   in the same order and either both return the same parsed JSON or both fail;
   they differ only in the temperature sent (0.7 for generation, 0.3 for
   evaluation) and in the failure message. *)
C30_ClientsEquivalent ==
    /\ ModelsContacted("QuestionGenerator") = ModelsContacted("Evaluator")
    /\ pc["QuestionGenerator"] = pc["Evaluator"]
    /\ \A i \in 1..Len(requests["Evaluator"]) :
          /\ requests["QuestionGenerator"][i].max_tokens = requests["Evaluator"][i].max_tokens
          /\ requests["QuestionGenerator"][i].temperature = "0.7"
          /\ requests["Evaluator"][i].temperature = "0.3"
    /\ api_result["QuestionGenerator"].k = api_result["Evaluator"].k
    /\ api_result["Evaluator"].k = "return" =>
          api_result["QuestionGenerator"] = api_result["Evaluator"]
    /\ api_result["Evaluator"].k = "raise" =>
          /\ api_result["Evaluator"] = Raised("All models failed to evaluate the answer")
          /\ api_result["QuestionGenerator"] = Raised("All models failed to generate a question")

(* C30 witness: the first model failed for both clients and the second gave
   both the same parsed JSON *)
C30_Witness ==
    /\ op.fn = "both"
    /\ Len(responses) = 2
    /\ Outcomes[responses[1]].k # "return"
    /\ \A client \in Clients :
          /\ pc[client] = "done"
          /\ Len(requests[client]) = 2
          /\ api_result[client] = Outcomes[responses[2]]
          /\ api_result[client].k = "return"

(* both clients fail after the last model, each with its own message *)
BothFailAfterLastModel ==
    (op.fn = "both" /\ Len(responses) = Len(AllModels)
       /\ \A i \in 1..Len(responses) : Outcomes[responses[i]].k # "return")
    => \A client \in Clients :
          /\ pc[client] = "done"
          /\ api_result[client] = AllModelsFailed(client)
          /\ ModelsContacted(client) = AllModels

====
